---- MODULE Spec2Model ----
(***************************************************************************)
(* Model of the Typst-subset front end of Kapst: Parser.parse() over the   *)
(* token stream its Lexer produces.  A token is [kind, text]; the parser   *)
(* object is a record threaded through the recursive-descent operators,    *)
(* every operator returning [p |-> parser after the call, v |-> value].    *)
(* A thrown ParseError is the parser's err field; every caller passes it   *)
(* on unchanged, which is what JavaScript's exception propagation does.    *)
(* Object identity of AST nodes is the id field: every object literal of   *)
(* the source draws a fresh id, and cloneValue gives every copy a fresh id *)
(* derived from the number of the cloneNodes call that made it.            *)
(* Spec runs the parser over token sequences; LexSpec runs the Lexer over  *)
(* input strings, one lex() call per step, and the parser over the tokens  *)
(* it returned.                                                            *)
(***************************************************************************)
EXTENDS Integers, Sequences, FiniteSets, TLC

VARIABLES parser, pc, lastExpression, result, lexer, stream

vars == <<parser, pc, lastExpression, result, lexer, stream>>

(***************************************************************************)
(* Bounds of the model.                                                    *)
(***************************************************************************)
MaxLen == 3

MaxStmts == 4

MaxArgs == 3

MaxOperands == 4

MaxScripts == 2

MaxRows == 2

MaxPieces == 2

MaxEOFCalls == 2

MaxCommentPieces == 3

(***************************************************************************)
(* Tokens.                                                                 *)
(***************************************************************************)
Token(text, kind) == [kind |-> kind, text |-> text]

Id(t) == Token(t, "identifier")

Num(t) == Token(t, "number")

Str(t) == Token(t, "string")

Op(t) == Token(t, "operator")

Pu(t) == Token(t, "punctuation")

EOFToken == Token("EOF", "EOF")

(***************************************************************************)
(* Strings: text.split("") and chunks.join("").                            *)
(***************************************************************************)
RECURSIVE Join(_)
Join(cs) == IF cs = <<>> THEN "" ELSE Head(cs) \o Join(Tail(cs))

Explode(s) == [i \in 1..Len(s) |-> SubSeq(s, i, i)]

(***************************************************************************)
(* Constant tables of Parser.js.                                           *)
(***************************************************************************)
COMPARISON_OPERATORS ==
    {"=", "==", "!=", "<", "<=", ">", ">=", "->", "<-", "<->", "=>", "<=>"}

ADDITIVE_OPERATORS == {"+", "-"}

MULTIPLICATIVE_OPERATORS == {"*", "/"}

NON_PREFIX_TOKENS ==
    {"+", "-", "*", "/", "^", "_", "=", "==", "!=", "<", "<=", ">", ">="}

OPERATOR_SYMBOL_MAP ==
    [x \in {"*", "==", "!=", "<=", ">=", "->", "<-", "<->", "=>", "<=>"} |->
        CASE x = "*" -> "\\cdot"
          [] x = "==" -> "="
          [] x = "!=" -> "\\ne"
          [] x = "<=" -> "\\leq"
          [] x = ">=" -> "\\geq"
          [] x = "->" -> "\\to"
          [] x = "<-" -> "\\leftarrow"
          [] x = "<->" -> "\\leftrightarrow"
          [] x = "=>" -> "\\Rightarrow"
          [] x = "<=>" -> "\\Leftrightarrow"]

GreekNames ==
    {"alpha", "beta", "gamma", "delta", "epsilon", "zeta", "eta", "theta",
     "iota", "kappa", "lambda", "mu", "nu", "xi", "pi", "rho", "sigma", "tau",
     "upsilon", "phi", "chi", "psi", "omega", "Gamma", "Delta", "Theta",
     "Lambda", "Xi", "Pi", "Sigma", "Upsilon", "Phi", "Psi", "Omega"}

NAMED_SYMBOLS ==
    [x \in GreekNames \cup {"oo", "infty"} |->
        IF x \in {"oo", "infty"} THEN "\\infty" ELSE "\\" \o x]

NAMED_OPERATORS ==
    [x \in {"sin", "cos", "tan", "ln", "log", "exp", "lim", "max", "min",
            "sum", "prod", "int"} |-> "\\" \o x]

ACCENT_CALLS ==
    [x \in {"hat", "bar", "tilde", "dot", "ddot", "vec", "overline",
            "underline"} |-> "\\" \o x]

ACCENT_NAME_MAP ==
    [x \in {"hat", "bar", "tilde", "dot", "ddot", "vec", "arrow", "acute",
            "grave", "check", "breve", "overline", "underline"} |->
        IF x = "arrow" THEN "\\vec" ELSE "\\" \o x]

(***************************************************************************)
(* External collaborators: the function-handler table and the symbol       *)
(* table.  A handler's result is opaque to the parser; the model keeps the *)
(* function name and the argument nodes it was given.                      *)
(***************************************************************************)
functions ==
    {"\\frac", "\\sqrt"} \cup {NAMED_OPERATORS[x] : x \in DOMAIN NAMED_OPERATORS}
        \cup {ACCENT_NAME_MAP[x] : x \in DOMAIN ACCENT_NAME_MAP}

ATOMS == {"bin", "close", "inner", "open", "punct", "rel"}

Letters ==
    {"a", "b", "c", "d", "e", "f", "g", "h", "i", "j", "k", "l", "m", "n",
     "o", "p", "q", "r", "s", "t", "u", "v", "w", "x", "y", "z",
     "A", "B", "C", "D", "E", "F", "G", "H", "I", "J", "K", "L", "M", "N",
     "O", "P", "Q", "R", "S", "T", "U", "V", "W", "X", "Y", "Z"}

symbols ==
    [x \in Letters |-> "mathord"] @@
    [x \in {"0", "1", "2", "3", "4", "5", "6", "7", "8", "9", "|", ".", "/",
            "\\infty", "\\|"} |-> "textord"] @@
    [x \in {"+", "-", "*", "\\cdot"} |-> "bin"] @@
    [x \in {"=", "<", ">", ":", "\\ne", "\\leq", "\\geq", "\\to",
            "\\leftarrow", "\\leftrightarrow", "\\Rightarrow",
            "\\Leftrightarrow"} |-> "rel"] @@
    [x \in {"(", "[", "\\{"} |-> "open"] @@
    [x \in {")", "]", "\\}", "!"} |-> "close"] @@
    [x \in {",", ";"} |-> "punct"] @@
    [x \in {NAMED_SYMBOLS[n] : n \in GreekNames} |-> "mathord"]

(***************************************************************************)
(* AST values.  undefined and null are the two non-node values a node      *)
(* field may hold.                                                         *)
(***************************************************************************)
Undefined == [type |-> "undefined"]

Null == [type |-> "null"]

IsNode(n) == n.type \notin {"undefined", "null"}

NodeKeys == {"base", "sup", "sub"}

ArrayKeys == {"body", "args", "optArgs", "cols"}

(***************************************************************************)
(* Parser object, lookahead and errors.                                    *)
(***************************************************************************)
NoError == [kind |-> "", tok |-> 0, text |-> ""]

\* Keys every JavaScript object literal inherits from Object.prototype.
ObjectPrototypeKeys ==
    {"constructor", "toString", "valueOf", "hasOwnProperty", "isPrototypeOf",
     "propertyIsEnumerable", "toLocaleString", "__proto__"}

\* lets, letOf, subs, argc, cases, empties, eofs and steps are history
\* fields: the value each let statement parsed and stored, the let
\* statement a name is bound by, the node sequence every substitution
\* returned, args.length of every call whose arguments parseCallArguments
\* returned, the cell counts of the rows every cases call collected, the
\* token positions between which an expression level returned an empty
\* sequence, the number of consume() calls made while the lookahead was the
\* end-of-input token, and the token positions between which each loop
\* went round once and each nested parse was reached.
NewParser(input) ==
    [input |-> input, pos |-> 1, mode |-> "math", definitions |-> <<>>,
     err |-> NoError, nid |-> 1, cid |-> 1, calls |-> <<>>,
     lets |-> <<>>, letOf |-> <<>>, subs |-> <<>>, argc |-> <<>>,
     cases |-> <<>>, empties |-> <<>>, eofs |-> 0,
     steps |-> <<>>]

R(p, v) == [p |-> p, v |-> v]

Ok(r) == r.p.err.kind = ""

Fail(p, kind, token) ==
    R([p EXCEPT !.err = [kind |-> kind, tok |-> token.loc, text |-> token.text]],
      <<>>)

fetch(p) ==
    IF p.pos > Len(p.input)
    THEN EOFToken @@ [loc |-> Len(p.input) + 1]
    ELSE p.input[p.pos] @@ [loc |-> p.pos]

consume(p) ==
    [p EXCEPT !.pos = @ + 1,
              !.eofs = IF p.pos > Len(p.input) THEN @ + 1 ELSE @]

\* History: the loop named kind goes round again with the parser p, its
\* iteration having begun at token position from.
iterated(p, kind, from) ==
    [p EXCEPT !.steps = Append(@, [kind |-> kind, from |-> from,
                                   to |-> p.pos])]

\* History: a nested parse begins with the parser p, in a routine that met
\* the token at position from.
descended(p, from) == iterated(p, "descent", from)

expect(p, text) ==
    IF fetch(p).text # text
    THEN Fail(p, "ExpectedToken", fetch(p))
    ELSE R(consume(p), <<>>)

\* A token built by the parser itself: new Token(text, loc, kind).
SynthToken(text, loc, kind) == Token(text, kind) @@ [loc |-> loc]

(***************************************************************************)
(* Node construction.                                                      *)
(***************************************************************************)
NewNode(p, fields) ==
    R([p EXCEPT !.nid = @ + 1], fields @@ [id |-> <<p.nid>>])

makeSymbolNode(p, text, token) ==
    IF text \in DOMAIN symbols
    THEN IF symbols[text] \in ATOMS
         THEN NewNode(p, [type |-> "atom", mode |-> p.mode,
                          family |-> symbols[text], loc |-> token.loc,
                          text |-> text])
         ELSE NewNode(p, [type |-> symbols[text], mode |-> p.mode,
                          loc |-> token.loc, text |-> text])
    ELSE NewNode(p, [type |-> "textord", mode |-> p.mode, loc |-> token.loc,
                     text |-> text])

makeOperatorNode(p, token) ==
    makeSymbolNode(p,
                   IF token.text \in DOMAIN OPERATOR_SYMBOL_MAP
                   THEN OPERATOR_SYMBOL_MAP[token.text] ELSE token.text,
                   token)

normalizeDelimiter(delim) ==
    IF delim = "{" THEN "\\{" ELSE IF delim = "}" THEN "\\}" ELSE delim

makeOrdGroup(p, body) ==
    NewNode(p, [type |-> "ordgroup", mode |-> p.mode, body |-> body])

nodesToArgument(p, nodes) ==
    IF Len(nodes) = 1 THEN R(p, nodes[1]) ELSE makeOrdGroup(p, nodes)

makeTextNode(p, text, token) ==
    LET cs == Explode(text)
        body == [i \in 1..Len(cs) |->
                    [type |-> "textord", mode |-> "text", text |-> cs[i],
                     id |-> <<p.nid + i - 1>>]]
    IN  NewNode([p EXCEPT !.nid = @ + Len(cs)],
                [type |-> "text", mode |-> p.mode, loc |-> token.loc,
                 body |-> body])

\* One makeSymbolNode per character of a name, in order.
RECURSIVE makeSymbolNodes(_, _, _, _)
makeSymbolNodes(p, chars, loc, acc) ==
    IF chars = <<>> THEN R(p, acc)
    ELSE LET n == makeSymbolNode(p, Head(chars),
                                 SynthToken(Head(chars), loc, "identifier"))
         IN  makeSymbolNodes(n.p, Tail(chars), loc, Append(acc, n.v))

canStartPrimary(token, stopTokens) ==
    IF token.text = "EOF" \/ token.text \in stopTokens THEN FALSE
    ELSE IF token.kind \in {"identifier", "number", "string"} THEN TRUE
    ELSE token.text \in {"(", "[", "{"}

callFunction(p, name, args, optArgs, token) ==
    IF name \notin functions
    THEN Fail(p, "UnsupportedFunction", token)
    ELSE NewNode([p EXCEPT !.calls =
                     Append(@, [funcName |-> name, token |-> token.loc])],
                 [type |-> "handler", funcName |-> name, mode |-> p.mode,
                  args |-> args, optArgs |-> optArgs])

(***************************************************************************)
(* cloneValue / cloneNodes.  Arrays are mapped, objects are copied key by  *)
(* key without loc, everything else is returned as it is.  The copy of an  *)
(* object is a new object: its id is the source's id under the tag of the  *)
(* cloneNodes call.                                                        *)
(***************************************************************************)
\* cloneValue copying one level only: the nodes inside the copy are the
\* source's, with their loc.
cloneValueShallow(value, tag) ==
    IF ~IsNode(value) THEN value
    ELSE [k \in DOMAIN value \ {"loc"} |->
            IF k = "id" THEN <<tag>> \o value.id ELSE value[k]]

RECURSIVE cloneValue(_, _)
cloneValue(value, tag) ==
    IF ~IsNode(value) THEN value
    ELSE [k \in DOMAIN value \ {"loc"} |->
            CASE k = "id" -> <<tag>> \o value.id
              [] k \in NodeKeys -> cloneValue(value[k], tag)
              [] k \in ArrayKeys /\ value.type = "array" /\ k = "body" ->
                    [i \in 1..Len(value[k]) |->
                        [j \in 1..Len(value[k][i]) |->
                            cloneValue(value[k][i][j], tag)]]
              [] k \in ArrayKeys ->
                    [i \in 1..Len(value[k]) |-> cloneValue(value[k][i], tag)]
              [] OTHER -> value[k]]

\* cloneNodes without the copy: the nodes themselves.  C4 must reject it.
shareNodes(p, nodes) == R([p EXCEPT !.cid = @ + 1], nodes)

cloneNodes(p, nodes) ==
    R([p EXCEPT !.cid = @ + 1],
      [i \in 1..Len(nodes) |-> cloneValue(nodes[i], p.cid)])

(***************************************************************************)
(* The expression grammar.  Each while loop of the source is the recursive *)
(* operator named after it.                                                *)
(***************************************************************************)
SCRIPT_STOP_TOKENS ==
    {"EOF", ";", ",", ")", "]", "}", "+", "-", "*", "/", "^", "_", "=", "==",
     "!=", "<", "<=", ">", ">=", "->", "<-", "<->", "=>", "<=>"}

RECURSIVE parseComparison(_, _), comparisonLoop(_, _, _, _),
          parseAdditive(_, _), additiveLoop(_, _, _, _),
          parseMultiplicative(_, _), multiplicativeLoop(_, _, _, _),
          parseUnary(_, _), parsePostfix(_, _),
          postfixLoop(_, _, _, _), parseScriptArgument(_), parsePrimary(_, _),
          parseVisibleGroup(_, _, _), parseIdentifier(_, _), parseCall(_, _, _),
          parseCallArguments(_), callArgumentsLoop(_, _), parseCasesCall(_, _),
          casesLoop(_, _, _)

parseExpression(p, stopTokens) == parseComparison(p, stopTokens)

\* return nodes, by an expression level entered at token position from: an
\* empty sequence is recorded in the history with the positions it was
\* parsed between.
returned(p, nodes, routine, from) ==
    R(IF Len(nodes) = 0
      THEN [p EXCEPT !.empties = Append(@, [routine |-> routine,
                                            from |-> from, to |-> p.pos])]
      ELSE p,
      nodes)

\* left = parseAdditive(...), then the while loop.
comparisonLeft(left, stopTokens, from) ==
    IF ~Ok(left) THEN left
    ELSE comparisonLoop(left.p, left.v, stopTokens, from)

parseComparison(p, stopTokens) ==
    comparisonLeft(parseAdditive(p, stopTokens), stopTokens, p.pos)

\* The loop body after right = parseAdditive(...).
comparisonRight(right, left, operatorToken, stopTokens, from) ==
    IF ~Ok(right) THEN right
    ELSE IF Len(right.v) = 0
    THEN Fail(right.p, "ExpectedExpressionAfterOperator", operatorToken)
    ELSE comparisonLoop(iterated(makeOperatorNode(right.p, operatorToken).p,
                                 "parseComparison", operatorToken.loc),
                        left \o <<makeOperatorNode(right.p, operatorToken).v>>
                            \o right.v,
                        stopTokens, from)

comparisonLoop(p, left, stopTokens, from) ==
    IF fetch(p).text \notin stopTokens
       /\ fetch(p).text \in COMPARISON_OPERATORS
    THEN comparisonRight(parseAdditive(descended(consume(p), p.pos),
                                       stopTokens),
                         left, fetch(p), stopTokens, from)
    ELSE returned(p, left, "parseComparison", from)

additiveLeft(left, stopTokens, from) ==
    IF ~Ok(left) THEN left
    ELSE additiveLoop(left.p, left.v, stopTokens, from)

parseAdditive(p, stopTokens) ==
    additiveLeft(parseMultiplicative(p, stopTokens), stopTokens, p.pos)

additiveRight(right, left, operatorToken, stopTokens, from) ==
    IF ~Ok(right) THEN right
    ELSE IF Len(right.v) = 0
    THEN Fail(right.p, "ExpectedExpressionAfterOperator", operatorToken)
    ELSE additiveLoop(iterated(makeOperatorNode(right.p, operatorToken).p,
                               "parseAdditive", operatorToken.loc),
                      left \o <<makeOperatorNode(right.p, operatorToken).v>>
                          \o right.v,
                      stopTokens, from)

additiveLoop(p, left, stopTokens, from) ==
    IF fetch(p).text \notin stopTokens
       /\ fetch(p).text \in ADDITIVE_OPERATORS
    THEN additiveRight(parseMultiplicative(descended(consume(p), p.pos),
                                           stopTokens),
                       left, fetch(p), stopTokens, from)
    ELSE returned(p, left, "parseAdditive", from)

\* The fraction branch lowered like the other operators, to a symbol node
\* between left and right.  C6 must reject it.
fracAsSymbol(p, left, right, token) ==
    R(makeOperatorNode(p, token).p,
      left \o <<makeOperatorNode(p, token).v>> \o right)

\* fracBranch with only the last node of left as the numerator.
fracOfLastNode(p, left, right, token) ==
    LET denom == nodesToArgument(p, right)
        f == callFunction(denom.p, "\\frac", <<left[Len(left)], denom.v>>,
                          <<>>, token)
    IN  IF Ok(f) THEN R(f.p, SubSeq(left, 1, Len(left) - 1) \o <<f.v>>) ELSE f

\* The fraction branch of the multiplicative loop: numer and denom are the
\* whole left sequence and the operand just parsed.
fracBranch(p, left, right, token) ==
    LET numer == nodesToArgument(p, left)
        denom == nodesToArgument(numer.p, right)
        f == callFunction(denom.p, "\\frac", <<numer.v, denom.v>>, <<>>, token)
    IN  IF Ok(f) THEN R(f.p, <<f.v>>) ELSE f

\* The other branch: the operator symbol between left and right.
timesBranch(p, left, right, token) ==
    LET o == makeOperatorNode(p, token)
    IN  R(o.p, left \o <<o.v>> \o right)

multiplicativeLeft(left, stopTokens, from) ==
    IF ~Ok(left) THEN left
    ELSE IF Len(left.v) = 0
    THEN returned(left.p, left.v, "parseMultiplicative", from)
    ELSE multiplicativeLoop(left.p, left.v, stopTokens, from)

parseMultiplicative(p, stopTokens) ==
    multiplicativeLeft(parseUnary(p, stopTokens), stopTokens, p.pos)

\* left after one operator and its operand.
multiplicativeNext(next, stopTokens, from) ==
    IF ~Ok(next) THEN next
    ELSE multiplicativeLoop(next.p, next.v, stopTokens, from)

\* The loop body after an operator and right = parseUnary(...).
multiplicativeRight(right, left, token, stopTokens, from) ==
    IF ~Ok(right) THEN right
    ELSE IF Len(right.v) = 0
    THEN Fail(right.p, "ExpectedExpressionAfterOperator", token)
    ELSE multiplicativeNext(IF token.text = "/"
                            THEN fracBranch(iterated(right.p,
                                                     "parseMultiplicative",
                                                     token.loc),
                                            left, right.v, token)
                            ELSE timesBranch(iterated(right.p,
                                                      "parseMultiplicative",
                                                      token.loc),
                                             left, right.v, token),
                            stopTokens, from)

\* The loop body after a juxtaposed right = parseUnary(...), parsed from
\* token position start.
juxtaposed(right, left, stopTokens, from, start) ==
    IF ~Ok(right) THEN right
    ELSE IF Len(right.v) = 0
    THEN returned(right.p, left, "parseMultiplicative", from)
    ELSE multiplicativeLoop(iterated(right.p, "juxtaposition", start),
                            left \o right.v, stopTokens, from)

\* The operand after the current token: after consuming it when it is an
\* operator, at it when it starts a juxtaposed operand.
multiplicativeOperand(p, left, stopTokens, from) ==
    IF fetch(p).text \in MULTIPLICATIVE_OPERATORS
    THEN multiplicativeRight(parseUnary(descended(consume(p), p.pos),
                                        stopTokens),
                             left, fetch(p), stopTokens, from)
    ELSE juxtaposed(parseUnary(p, stopTokens), left, stopTokens, from,
                    p.pos)

multiplicativeLoop(p, left, stopTokens, from) ==
    IF fetch(p).text = "EOF" \/ fetch(p).text \in stopTokens
       \/ fetch(p).text \in COMPARISON_OPERATORS
       \/ fetch(p).text \in ADDITIVE_OPERATORS
    THEN returned(p, left, "parseMultiplicative", from)
    ELSE IF fetch(p).text \in MULTIPLICATIVE_OPERATORS
            \/ canStartPrimary(fetch(p), stopTokens)
    THEN multiplicativeOperand(p, left, stopTokens, from)
    ELSE returned(p, left, "parseMultiplicative", from)

\* Unary plus: return this.parseUnary(stopTokens), after the + at token
\* position from has been consumed.
signed(body, from) ==
    IF ~Ok(body) THEN body ELSE returned(body.p, body.v, "parseUnary", from)

\* Unary minus after body = parseUnary(...).
negated(body, token) ==
    IF ~Ok(body) THEN body
    ELSE IF Len(body.v) = 0
    THEN Fail(body.p, "ExpectedExpressionAfterOperator", token)
    ELSE R(makeOperatorNode(body.p, token).p,
           <<makeOperatorNode(body.p, token).v>> \o body.v)

parseUnary(p, stopTokens) ==
    IF fetch(p).text = "EOF" \/ fetch(p).text \in stopTokens
    THEN returned(p, <<>>, "parseUnary", p.pos)
    ELSE IF fetch(p).text = "+"
    THEN signed(parseUnary(descended(consume(p), p.pos), stopTokens), p.pos)
    ELSE IF fetch(p).text = "-"
    THEN negated(parseUnary(descended(consume(p), p.pos), stopTokens),
                 fetch(p))
    ELSE parsePostfix(p, stopTokens)

\* parsePostfix after base = parsePrimary(...); parseUnary returns what
\* parsePostfix returns.
postfixBase(base, from) ==
    IF ~Ok(base) THEN base
    ELSE IF base.v = Null THEN returned(base.p, <<>>, "parseUnary", from)
    ELSE postfixLoop(base.p, base.v, Undefined, Undefined)

parsePostfix(p, stopTokens) ==
    postfixBase(parsePrimary(p, stopTokens), p.pos)

\* The loop body after script = parseScriptArgument().
postfixScript(script, token, base, superscript, subscript) ==
    IF ~Ok(script) THEN script
    ELSE IF token.text = "^"
    THEN IF IsNode(superscript)
         THEN Fail(script.p, "DoubleSuperscript", token)
         ELSE postfixLoop(iterated(script.p, "parsePostfix", token.loc),
                          base, script.v, subscript)
    ELSE IF IsNode(subscript)
         THEN Fail(script.p, "DoubleSubscript", token)
         ELSE postfixLoop(iterated(script.p, "parsePostfix", token.loc),
                          base, superscript, script.v)

\* return [{type: "supsub", ...}] or [base].
postfixResult(p, base, superscript, subscript) ==
    IF IsNode(superscript) \/ IsNode(subscript)
    THEN LET n == NewNode(p, [type |-> "supsub", mode |-> p.mode,
                              base |-> base, sup |-> superscript,
                              sub |-> subscript])
         IN  R(n.p, <<n.v>>)
    ELSE R(p, <<base>>)

postfixLoop(p, base, superscript, subscript) ==
    IF fetch(p).text = "^" \/ fetch(p).text = "_"
    THEN postfixScript(parseScriptArgument(descended(consume(p), p.pos)),
                       fetch(p), base, superscript, subscript)
    ELSE postfixResult(p, base, superscript, subscript)

\* expect(close), then what the caller builds from the body.
closed(body, close) == IF ~Ok(body) THEN body ELSE R(expect(body.p, close).p, body.v)

bracedScript(body) == IF ~Ok(body) THEN body ELSE nodesToArgument(body.p, body.v)

unbracedScript(script) ==
    IF ~Ok(script) THEN script
    ELSE IF Len(script.v) = 0
    THEN Fail(script.p, "ExpectedScriptArgument", fetch(script.p))
    ELSE nodesToArgument(script.p, script.v)

parseScriptArgument(p) ==
    IF fetch(p).text = "{"
    THEN bracedScript(closed(parseExpression(descended(consume(p), p.pos),
                                             {"}"}),
                             "}"))
    ELSE unbracedScript(parseUnary(p, SCRIPT_STOP_TOKENS))

\* The node of a { ... } group.
bracedGroup(body) ==
    IF ~Ok(body) THEN body
    ELSE NewNode(body.p, [type |-> "ordgroup", mode |-> body.p.mode,
                          body |-> body.v])

parsePrimary(p, stopTokens) ==
    LET token == fetch(p)
    IN  IF token.text = "EOF" \/ token.text \in stopTokens THEN R(p, Null)
        ELSE IF token.kind = "identifier" THEN parseIdentifier(p, token)
        ELSE IF token.kind = "number"
        THEN NewNode(consume(p), [type |-> "textord", mode |-> p.mode,
                                  loc |-> token.loc, text |-> token.text])
        ELSE IF token.kind = "string"
        THEN makeTextNode(consume(p), token.text, token)
        ELSE IF token.text = "(" THEN parseVisibleGroup(p, "(", ")")
        ELSE IF token.text = "[" THEN parseVisibleGroup(p, "[", "]")
        ELSE IF token.text = "{"
        THEN bracedGroup(closed(parseExpression(descended(consume(p), p.pos),
                                                {"}"}),
                                "}"))
        ELSE IF token.text \in {")", "]", "}"} THEN R(p, Null)
        ELSE IF token.text \in NON_PREFIX_TOKENS THEN R(p, Null)
        ELSE makeSymbolNode(consume(p), token.text, token)

\* The ordgroup [open, ...inner, close] after the two delimiter nodes.
visibleGroup(closeNode, openNode, inner) ==
    makeOrdGroup(closeNode.p, <<openNode>> \o inner \o <<closeNode.v>>)

visibleOpened(openNode, inner, close, closeToken) ==
    visibleGroup(makeSymbolNode(openNode.p, normalizeDelimiter(close),
                                closeToken),
                 openNode.v, inner)

\* parseVisibleGroup after expect(close).
visibleClosed(e, inner, open, close, openToken, closeToken) ==
    IF ~Ok(e) THEN e
    ELSE visibleOpened(makeSymbolNode(e.p, normalizeDelimiter(open), openToken),
                       inner, close, closeToken)

\* parseVisibleGroup after inner = parseExpression([close]).
visibleInner(inner, open, close, openToken) ==
    IF ~Ok(inner) THEN inner
    ELSE visibleClosed(expect(inner.p, close), inner.v, open, close, openToken,
                       fetch(inner.p))

parseVisibleGroup(p, open, close) ==
    visibleInner(parseExpression(descended(consume(p), p.pos), {close}),
                 open, close, fetch(p))

\* this.definitions[name] is truthy: an own binding, or a member inherited
\* from Object.prototype.
HasDefinition(p, name) ==
    name \in DOMAIN p.definitions \/ name \in ObjectPrototypeKeys

\* The substitution branch: cloneNodes of the stored value, wrapped by
\* nodesToArgument.  An inherited member is no array: calling map on it
\* throws a TypeError.
substitute(p, name, token) ==
    IF name \notin DOMAIN p.definitions
    THEN Fail(p, "TypeError", token)
    ELSE LET c == cloneNodes(p, p.definitions[name])
             logged == [c.p EXCEPT !.subs =
                           Append(@, [name |-> name, let |-> p.letOf[name],
                                      at |-> Len(p.lets), nodes |-> c.v])]
         IN  nodesToArgument(logged, c.v)

parseIdentifier(p, token) ==
    LET q == consume(p)
        name == token.text
    IN  IF fetch(q).text = "(" THEN parseCall(q, name, token)
        ELSE IF HasDefinition(q, name) THEN substitute(q, name, token)
        ELSE IF name \in DOMAIN NAMED_SYMBOLS
        THEN makeSymbolNode(q, NAMED_SYMBOLS[name], token)
        ELSE IF name \in DOMAIN NAMED_OPERATORS
        THEN callFunction(q, NAMED_OPERATORS[name], <<>>, <<>>, token)
        ELSE IF Len(name) = 1 THEN makeSymbolNode(q, name, token)
        ELSE LET body == makeSymbolNodes(q, Explode(name), token.loc, <<>>)
             IN  makeOrdGroup(body.p, body.v)

\* parseCallArguments after expect("("): the loop when the next token is
\* not ")", then expect(")").
argumentsOpened(open, from) ==
    IF ~Ok(open) THEN open
    ELSE IF fetch(open.p).text # ")"
    THEN closed(callArgumentsLoop(descended(open.p, from), <<>>), ")")
    ELSE closed(R(open.p, <<>>), ")")

parseCallArguments(p) == argumentsOpened(expect(p, "("), p.pos)

\* The loop body after args.push(parseExpression([",", ")"])), parsed from
\* token position start.
argumentParsed(arg, args, start) ==
    IF ~Ok(arg) THEN arg
    ELSE IF fetch(arg.p).text = ","
    THEN callArgumentsLoop(iterated(consume(arg.p), "parseCallArguments",
                                    start),
                           Append(args, arg.v))
    ELSE R(arg.p, Append(args, arg.v))

callArgumentsLoop(p, args) ==
    argumentParsed(parseExpression(p, {",", ")"}), args, p.pos)

(***************************************************************************)
(* Call lowering.                                                          *)
(***************************************************************************)
RECURSIVE parenthesizedArgsLoop(_, _, _, _)
parenthesizedArgsLoop(p, args, i, body) ==
    IF i > Len(args) THEN R(p, body)
    ELSE LET comma == IF i > 1
                      THEN makeSymbolNode(p, ",",
                                          SynthToken(",", 0, "punctuation"))
                      ELSE R(p, Null)
             arg == nodesToArgument(comma.p, args[i])
         IN  parenthesizedArgsLoop(arg.p, args, i + 1,
                 (IF i > 1 THEN Append(body, comma.v) ELSE body) \o <<arg.v>>)

makeParenthesizedArgsNode(p, args) ==
    LET body == parenthesizedArgsLoop(p, args, 1, <<>>)
        open == makeSymbolNode(body.p, "(", SynthToken("(", 0, "punctuation"))
        close == makeSymbolNode(open.p, ")", SynthToken(")", 0, "punctuation"))
    IN  makeOrdGroup(close.p, <<open.v>> \o body.v \o <<close.v>>)

makeDelimiterNode(p, name, argument) ==
    LET left == CASE name = "abs" -> "|"
                  [] name = "norm" -> "\\|"
                  [] name = "floor" -> "\\lfloor"
                  [] OTHER -> "\\lceil"
        right == CASE name = "abs" -> "|"
                   [] name = "norm" -> "\\|"
                   [] name = "floor" -> "\\rfloor"
                   [] OTHER -> "\\rceil"
    IN  NewNode(p, [type |-> "leftright", mode |-> p.mode, body |-> argument,
                    left |-> left, right |-> right])

\* extractPlainText: the chunks of text the nodes contribute, or failure.
RECURSIVE walk(_), walkAll(_, _, _)
walk(node) ==
    IF node.type \in {"textord", "mathord", "atom"}
    THEN [ok |-> TRUE, chunks |-> <<node.text>>]
    ELSE IF node.type = "ordgroup" THEN walkAll(node.body, 1, <<>>)
    ELSE IF node.type = "text"
    THEN IF \E i \in 1..Len(node.body) : node.body[i].type # "textord"
         THEN [ok |-> FALSE, chunks |-> <<>>]
         ELSE [ok |-> TRUE,
               chunks |-> [i \in 1..Len(node.body) |-> node.body[i].text]]
    ELSE [ok |-> FALSE, chunks |-> <<>>]

walkAll(nodes, i, chunks) ==
    IF i > Len(nodes) THEN [ok |-> TRUE, chunks |-> chunks]
    ELSE LET w == walk(nodes[i])
         IN  IF ~w.ok THEN [ok |-> FALSE, chunks |-> <<>>]
             ELSE walkAll(nodes, i + 1, chunks \o w.chunks)

extractPlainText(nodes) == walkAll(nodes, 1, <<>>)

Whitespace == {" ", "\t", "\n", "\r"}

UpperCase == <<"A", "B", "C", "D", "E", "F", "G", "H", "I", "J", "K", "L", "M",
               "N", "O", "P", "Q", "R", "S", "T", "U", "V", "W", "X", "Y", "Z">>

LowerCase == <<"a", "b", "c", "d", "e", "f", "g", "h", "i", "j", "k", "l", "m",
               "n", "o", "p", "q", "r", "s", "t", "u", "v", "w", "x", "y", "z">>

toLowerCase(c) ==
    IF \E i \in DOMAIN UpperCase : UpperCase[i] = c
    THEN LowerCase[CHOOSE i \in DOMAIN UpperCase : UpperCase[i] = c]
    ELSE c

RECURSIVE trim(_)
trim(cs) ==
    IF cs = <<>> THEN cs
    ELSE IF Head(cs) \in Whitespace THEN trim(Tail(cs))
    ELSE IF cs[Len(cs)] \in Whitespace THEN trim(SubSeq(cs, 1, Len(cs) - 1))
    ELSE cs

RECURSIVE ExplodeAll(_)
ExplodeAll(chunks) ==
    IF chunks = <<>> THEN <<>>
    ELSE Explode(Head(chunks)) \o ExplodeAll(Tail(chunks))

\* accentName.trim().toLowerCase()
accentKey(chunks) ==
    LET cs == trim(ExplodeAll(chunks))
    IN  Join([i \in 1..Len(cs) |-> toLowerCase(cs[i])])

\* ACCENT_NAME_MAP[key]: the table is an object literal, so a key it does not
\* define itself is looked up in Object.prototype.  "" stands for
\* undefined, which !command tests.
accentCommand(key) ==
    IF key \in DOMAIN ACCENT_NAME_MAP THEN ACCENT_NAME_MAP[key]
    ELSE IF key \in ObjectPrototypeKeys THEN "Object.prototype." \o key
    ELSE ""

parseAccentCall(p, args, nameToken) ==
    IF Len(args) # 2 THEN Fail(p, "ArityMismatch", nameToken)
    ELSE LET base == nodesToArgument(p, args[1])
             accentName == extractPlainText(args[2])
         IN  IF ~accentName.ok \/ Join(accentName.chunks) = ""
             THEN Fail(base.p, "AccentKindMustBeText", nameToken)
             ELSE IF accentCommand(accentKey(accentName.chunks)) = ""
             THEN Fail(base.p, "UnsupportedAccent", nameToken)
             ELSE callFunction(base.p,
                               accentCommand(accentKey(accentName.chunks)),
                               <<base.v>>, <<>>, nameToken)

\* The number of arguments a named structural call requires.
ArityNames ==
    {"frac", "sqrt", "root", "accent", "abs", "norm", "floor", "ceil"}
        \cup DOMAIN ACCENT_CALLS

\* An arity table that takes sqrt for a call of two arguments.  C9 must
\* reject it.
ArityOfTwoForSqrt(name) ==
    IF name \in {"frac", "root", "accent", "sqrt"} THEN 2 ELSE 1

Arity(name) == IF name \in {"frac", "root", "accent"} THEN 2 ELSE 1

\* The lowering of a call whose argument count has been accepted.
lowerCall(p, name, args, nameToken) ==
    IF name = "frac"
    THEN LET a == nodesToArgument(p, args[1])
             b == nodesToArgument(a.p, args[2])
         IN  callFunction(b.p, "\\frac", <<a.v, b.v>>, <<>>, nameToken)
    ELSE IF name = "sqrt"
    THEN LET a == nodesToArgument(p, args[1])
         IN  callFunction(a.p, "\\sqrt", <<a.v>>, <<Null>>, nameToken)
    ELSE IF name = "root"
    THEN LET a == nodesToArgument(p, args[2])
             b == nodesToArgument(a.p, args[1])
         IN  callFunction(b.p, "\\sqrt", <<a.v>>, <<b.v>>, nameToken)
    ELSE IF name \in DOMAIN ACCENT_CALLS
    THEN LET a == nodesToArgument(p, args[1])
         IN  callFunction(a.p, ACCENT_CALLS[name], <<a.v>>, <<>>, nameToken)
    ELSE makeDelimiterNode(p, name, args[1])

\* Named operators and the literal fallback name(args...).
lowerOtherCall(p, name, args, nameToken) ==
    IF name \in DOMAIN NAMED_OPERATORS
    THEN LET opNode == callFunction(p, NAMED_OPERATORS[name], <<>>, <<>>,
                                    nameToken)
         IN  IF ~Ok(opNode) THEN opNode
             ELSE LET callSuffix == makeParenthesizedArgsNode(opNode.p, args)
                  IN  makeOrdGroup(callSuffix.p, <<opNode.v, callSuffix.v>>)
    ELSE LET fallbackNameNode ==
                 IF Len(name) = 1 THEN makeSymbolNode(p, name, nameToken)
                 ELSE LET body == makeSymbolNodes(p, Explode(name),
                                                  nameToken.loc, <<>>)
                      IN  makeOrdGroup(body.p, body.v)
             fallbackCall == makeParenthesizedArgsNode(fallbackNameNode.p, args)
         IN  makeOrdGroup(fallbackCall.p, <<fallbackNameNode.v, fallbackCall.v>>)

\* parseCall after args = parseCallArguments().
calledWith(args, name, nameToken) ==
    IF ~Ok(args) THEN args
    ELSE IF name = "accent" THEN parseAccentCall(args.p, args.v, nameToken)
    ELSE IF name \in ArityNames
    THEN IF Len(args.v) # Arity(name)
         THEN Fail(args.p, "ArityMismatch", nameToken)
         ELSE lowerCall(args.p, name, args.v, nameToken)
    ELSE lowerOtherCall(args.p, name, args.v, nameToken)

\* args = parseCallArguments(), with args.length in the history.
counted(args, nameToken) ==
    IF ~Ok(args) THEN args
    ELSE R([args.p EXCEPT !.argc = Append(@, [token |-> nameToken.loc,
                                              n |-> Len(args.v)])],
           args.v)

parseCall(p, name, nameToken) ==
    IF name = "cases" THEN parseCasesCall(p, nameToken)
    ELSE calledWith(counted(parseCallArguments(p), nameToken), name, nameToken)

(***************************************************************************)
(* cases(...).                                                             *)
(***************************************************************************)
\* The loop body after cell = parseExpression([",", ";", ")"]), parsed
\* from token position start.
cellParsed(cell, rows, row, start) ==
    IF ~Ok(cell) THEN cell
    ELSE IF fetch(cell.p).text = ","
    THEN casesLoop(iterated(consume(cell.p), "parseCasesCall", start), rows,
                   Append(row, cell.v))
    ELSE IF fetch(cell.p).text = ";"
    THEN casesLoop(iterated(consume(cell.p), "parseCasesCall", start),
                   Append(rows, Append(row, cell.v)), <<>>)
    ELSE R(cell.p, [rows |-> rows, row |-> Append(row, cell.v)])

casesLoop(p, rows, row) ==
    cellParsed(parseExpression(p, {",", ";", ")"}), rows, row, p.pos)

Max(a, b) == IF a > b THEN a ELSE b

RECURSIVE maxColsOf(_, _, _)
maxColsOf(rows, i, maxCols) ==
    IF i > Len(rows) THEN maxCols
    ELSE maxColsOf(rows, i + 1,
                   IF Len(rows[i]) > maxCols THEN Len(rows[i]) ELSE maxCols)

\* casesCells without the padding loop.
RECURSIVE casesCellsUnpadded(_, _, _, _, _)
casesCellsUnpadded(p, cells, maxCols, i, acc) ==
    IF i > Len(cells) THEN R(p, acc)
    ELSE LET arg == nodesToArgument(p, cells[i])
             cell == NewNode(arg.p, [type |-> "styling", mode |-> p.mode,
                                     style |-> "text", body |-> <<arg.v>>])
         IN  casesCellsUnpadded(cell.p, cells, maxCols, i + 1,
                                Append(acc, cell.v))

\* normalized.map(cell => styling node), the cells padded to maxCols.
RECURSIVE casesCells(_, _, _, _, _)
casesCells(p, cells, maxCols, i, acc) ==
    IF i > Max(Len(cells), maxCols) THEN R(p, acc)
    ELSE LET arg == nodesToArgument(p, IF i <= Len(cells) THEN cells[i]
                                        ELSE <<>>)
             cell == NewNode(arg.p, [type |-> "styling", mode |-> p.mode,
                                     style |-> "text", body |-> <<arg.v>>])
         IN  casesCells(cell.p, cells, maxCols, i + 1, Append(acc, cell.v))

RECURSIVE casesBody(_, _, _, _, _)
casesBody(p, rows, maxCols, i, acc) ==
    IF i > Len(rows) THEN R(p, acc)
    ELSE LET r == casesCells(p, rows[i], maxCols, 1, <<>>)
         IN  casesBody(r.p, rows, maxCols, i + 1, Append(acc, r.v))

\* The leftright node around the array node.
casesLeftRight(arrayNode) ==
    NewNode(arrayNode.p,
            [type |-> "leftright", mode |-> arrayNode.p.mode,
             body |-> <<arrayNode.v>>, left |-> "\\{", right |-> "."])

casesArray(body, maxCols) ==
    casesLeftRight(
        NewNode(body.p,
                [type |-> "array", mode |-> body.p.mode,
                 arraystretch |-> "1.2",
                 cols |-> [i \in 1..maxCols |->
                              [type |-> "align", align |-> "l", pregap |-> 0,
                               postgap |-> IF i = 1 /\ maxCols > 1
                                           THEN 1 ELSE 0]],
                 body |-> body.v,
                 rowGaps |-> [i \in 1..Max(0, Len(body.v) - 1) |-> Null],
                 hLinesBeforeRow |-> [i \in 1..(Len(body.v) + 1) |-> <<>>]]))

casesRows(p, rows, maxCols) ==
    casesArray(casesBody(p, rows, maxCols, 1, <<>>), maxCols)

casesNode(p, rows) ==
    casesRows([p EXCEPT !.cases =
                  Append(@, [i \in 1..Len(rows) |-> Len(rows[i])])],
              rows, maxColsOf(rows, 1, 1))

\* parseCasesCall after expect(")").
casesClosed(close, rows, nameToken) ==
    IF ~Ok(close) THEN close
    ELSE IF Len(rows) = 0 THEN Fail(close.p, "EmptyCases", nameToken)
    ELSE casesNode(close.p, rows)

\* parseCasesCall after the loop: the pending row is pushed when it is not
\* empty.
casesParsed(parsed, nameToken) ==
    IF ~Ok(parsed) THEN parsed
    ELSE casesClosed(expect(parsed.p, ")"),
                     IF Len(parsed.v.row) > 0
                     THEN Append(parsed.v.rows, parsed.v.row)
                     ELSE parsed.v.rows,
                     nameToken)

casesOpened(open, nameToken, from) ==
    IF ~Ok(open) THEN open
    ELSE IF fetch(open.p).text # ")"
    THEN casesParsed(casesLoop(descended(open.p, from), <<>>, <<>>),
                     nameToken)
    ELSE casesParsed(R(open.p, [rows |-> <<>>, row |-> <<>>]), nameToken)

parseCasesCall(p, nameToken) ==
    casesOpened(expect(p, "("), nameToken, p.pos)

(***************************************************************************)
(* Statements.                                                             *)
(***************************************************************************)
isLetStatement(p) ==
    fetch(p).kind = "identifier" /\ fetch(p).text = "let"

\* A let that leaves an existing binding of the name in place.  C5 must
\* reject it.
bindOnce(p, name, value) ==
    R([cloneNodes(p, value).p EXCEPT
          !.definitions = @ @@ (name :> cloneNodes(p, value).v),
          !.lets = Append(@, [name |-> name, value |-> value,
                              stored |-> cloneNodes(p, value).v]),
          !.letOf = (name :> (Len(p.lets) + 1)) @@ @],
      <<>>)

\* this.definitions[name] = this.cloneNodes(value), with the history fields.
bind(p, name, value) ==
    LET c == cloneNodes(p, value)
    IN  R([c.p EXCEPT !.definitions = (name :> c.v) @@ @,
                      !.lets = Append(@, [name |-> name, value |-> value,
                                          stored |-> c.v]),
                      !.letOf = (name :> (Len(p.lets) + 1)) @@ @],
          <<>>)

\* parseLetStatement after value = parseExpression(...).
bound(value, name) ==
    IF ~Ok(value) THEN value ELSE bind(value.p, name, value.v)

parseLetStatement(p) ==
    LET nameToken == fetch(consume(p))
        eq == expect(consume(consume(p)), "=")
    IN  IF nameToken.kind # "identifier"
        THEN Fail(consume(p), "ExpectedIdentifierAfterLet", nameToken)
        ELSE IF ~Ok(eq) THEN eq
        ELSE bound(parseExpression(eq.p, {";", "EOF"}), nameToken.text)

\* statementEnd leaving the ';' in place.
statementEndKept(p) ==
    IF fetch(p).text \in {";", "EOF"} THEN R(p, <<>>)
    ELSE Fail(p, "ExpectedSemicolonOrEnd", fetch(p))

\* statementEnd consuming whatever ends the statement, the end of input
\* included.
statementEndConsumed(p) ==
    IF fetch(p).text \in {";", "EOF"} THEN R(consume(p), <<>>)
    ELSE Fail(p, "ExpectedSemicolonOrEnd", fetch(p))

\* The end of one iteration of parse()'s loop: ';' is consumed, anything
\* whose text is neither ';' nor EOF is an error.
statementEnd(p) ==
    IF fetch(p).text = ";" THEN R(consume(p), <<>>)
    ELSE IF fetch(p).text # "EOF"
    THEN Fail(p, "ExpectedSemicolonOrEnd", fetch(p))
    ELSE R(p, <<>>)

\* One iteration of the loop of parse(): a statement s, then its end; v is
\* the statement's value.
ended(s) == IF Ok(s) THEN R(statementEnd(s.p).p, s.v) ELSE s

letStep(p) == ended(parseLetStatement(p))

expressionStep(p) == ended(parseExpression(p, {";", "EOF"}))

\* parse() as a whole: the parser it leaves, and what it returns.
RECURSIVE parseLoop(_, _)
\* The loop after one iteration s; last is the value an expression
\* statement leaves in lastExpression.
looped(s, last) ==
    IF Ok(s) THEN parseLoop(s.p, last)
    ELSE [p |-> s.p, pc |-> "error", v |-> <<>>]

statement(p) == IF isLetStatement(p) THEN letStep(p) ELSE expressionStep(p)

keep(s, isLet, last) == IF isLet THEN last ELSE s.v

iterate(s, isLet, last) == looped(s, keep(s, isLet, last))

parseLoop(p, last) ==
    IF fetch(p).text # "EOF"
    THEN iterate(statement(p), isLetStatement(p), last)
    ELSE [p |-> expect(p, "EOF").p, pc |-> "done", v |-> last]

parse(input) == parseLoop(NewParser(input), <<>>)

(***************************************************************************)
(* The Lexer.  The lexer object is [input, pos, err]; pos counts from 0 as *)
(* in the source.  Every operator returns the lexer after the call, lex    *)
(* returns [l |-> lexer, token |-> token], and a thrown ParseError is the  *)
(* err field.                                                              *)
(***************************************************************************)
MULTI_CHAR_OPERATORS ==
    <<"<=>", "<->", "=>", "->", "<-", "<=", ">=", "!=", "==">>

SINGLE_CHAR_OPERATORS == {"+", "-", "*", "/", "^", "_", "=", "<", ">", "!"}

PUNCTUATION == {",", ":", ";", ".", "(", ")", "[", "]", "{", "}", "|"}

DecimalDigits == {"0", "1", "2", "3", "4", "5", "6", "7", "8", "9"}

NoLexError == [kind |-> "", text |-> "", start |-> 0, end |-> 0]

NewLexer(input) == [input |-> input, pos |-> 0, err |-> NoLexError]

\* this.input[i]; "" where JavaScript gives undefined.
charAt(l, i) ==
    IF i < Len(l.input) THEN SubSeq(l.input, i + 1, i + 1) ELSE ""

\* this.input.slice(start, end)
slice(l, start, end) == SubSeq(l.input, start + 1, end)

\* this.input.startsWith(op, start)
startsWith(l, op, start) ==
    /\ start + Len(op) <= Len(l.input)
    /\ slice(l, start, start + Len(op)) = op

advance(l, n) == [l EXCEPT !.pos = @ + n]

\* throw new ParseError(message, new Token(text, loc(start, end), kind))
LexFail(l, kind, text, start, end) ==
    [l EXCEPT !.err = [kind |-> kind, text |-> text, start |-> start,
                       end |-> end]]

\* new Token(text, new SourceLocation(this, start, this.pos), kind)
LexToken(l, text, kind, start) ==
    [l |-> l,
     token |-> [text |-> text, kind |-> kind, start |-> start, end |-> l.pos]]

\* The loop of a line comment.
RECURSIVE skipLineComment(_)
skipLineComment(l) ==
    IF l.pos < Len(l.input) /\ charAt(l, l.pos) # "\n"
    THEN skipLineComment(advance(l, 1))
    ELSE l

\* The loop of a block comment looking for the end one character earlier,
\* at the * of the opening.
RECURSIVE skipBlockCommentFromStar(_)
skipBlockCommentFromStar(l) ==
    IF l.pos < Len(l.input)
       /\ ~(charAt(l, l.pos - 1) = "*" /\ charAt(l, l.pos) = "/")
    THEN skipBlockCommentFromStar(advance(l, 1))
    ELSE advance(l, -1)

\* The loop of a block comment.
RECURSIVE skipBlockComment(_)
skipBlockComment(l) ==
    IF l.pos + 1 < Len(l.input)
       /\ ~(charAt(l, l.pos) = "*" /\ charAt(l, l.pos + 1) = "/")
    THEN skipBlockComment(advance(l, 1))
    ELSE l

RECURSIVE skipTrivia(_), blockCommentSkipped(_, _)
skipTrivia(l) ==
    IF l.pos >= Len(l.input) THEN l
    ELSE IF charAt(l, l.pos) \in {" ", "\n", "\r", "\t"}
    THEN skipTrivia(advance(l, 1))
    ELSE IF charAt(l, l.pos) = "/" /\ charAt(l, l.pos + 1) = "/"
    THEN skipTrivia(skipLineComment(advance(l, 2)))
    ELSE IF charAt(l, l.pos) = "/" /\ charAt(l, l.pos + 1) = "*"
    THEN blockCommentSkipped(skipBlockComment(advance(l, 2)), l.pos)
    ELSE l

\* skipTrivia after the loop of a block comment that began at commentStart.
blockCommentSkipped(l, commentStart) ==
    IF l.pos + 1 >= Len(l.input)
    THEN LexFail(l, "UnterminatedBlockComment", "/*", commentStart,
                 commentStart + 2)
    ELSE skipTrivia(advance(l, 2))

RECURSIVE identifierLoop(_)
identifierLoop(l) ==
    IF l.pos < Len(l.input)
       /\ charAt(l, l.pos) \in Letters \cup DecimalDigits \cup {"_"}
    THEN identifierLoop(advance(l, 1))
    ELSE l

identifierEnd(l, start) ==
    LexToken(l, slice(l, start, l.pos), "identifier", start)

lexIdentifierOrKeyword(l, start) ==
    identifierEnd(identifierLoop(advance(l, 1)), start)

RECURSIVE numberLoop(_, _)
numberLoop(l, sawDot) ==
    IF l.pos >= Len(l.input) THEN l
    ELSE IF charAt(l, l.pos) \in DecimalDigits
    THEN numberLoop(advance(l, 1), sawDot)
    ELSE IF ~sawDot /\ charAt(l, l.pos) = "."
    THEN numberLoop(advance(l, 1), TRUE)
    ELSE l

numberEnd(l, start) == LexToken(l, slice(l, start, l.pos), "number", start)

lexNumber(l, start) ==
    numberEnd(IF charAt(l, l.pos) = "." THEN numberLoop(advance(l, 1), TRUE)
              ELSE numberLoop(l, FALSE),
              start)

\* The character an escape sequence stands for.
escapedText(escaped) ==
    CASE escaped = "n" -> "\n"
      [] escaped = "r" -> "\r"
      [] escaped = "t" -> "\t"
      [] OTHER -> escaped

RECURSIVE stringLoop(_, _, _, _)
stringLoop(l, quote, text, start) ==
    IF l.pos >= Len(l.input)
    THEN LexToken(LexFail(l, "UnterminatedString", quote, start, start + 1),
                  "", "", start)
    ELSE IF charAt(l, l.pos) = quote
    THEN LexToken(advance(l, 1), text, "string", start)
    ELSE IF charAt(l, l.pos) = "\\"
    THEN IF l.pos + 1 >= Len(l.input)
         THEN LexToken(LexFail(l, "UnterminatedString", quote, start,
                               start + 1),
                       "", "", start)
         ELSE stringLoop(advance(l, 2), quote,
                         text \o escapedText(charAt(l, l.pos + 1)), start)
    ELSE stringLoop(advance(l, 1), quote, text \o charAt(l, l.pos), start)

lexString(l, start) == stringLoop(advance(l, 1), charAt(l, l.pos), "", start)

\* The first multi-character operator, in table order, the input has at
\* start; 0 when it has none.
multiCharOperatorAt(l, start) ==
    IF \E i \in DOMAIN MULTI_CHAR_OPERATORS :
          startsWith(l, MULTI_CHAR_OPERATORS[i], start)
    THEN CHOOSE i \in DOMAIN MULTI_CHAR_OPERATORS :
            /\ startsWith(l, MULTI_CHAR_OPERATORS[i], start)
            /\ \A j \in 1..(i - 1) :
                  ~startsWith(l, MULTI_CHAR_OPERATORS[j], start)
    ELSE 0

\* lexOperatorOrPunctuation without this.pos += 1 for punctuation.
punctuationInPlace(l, start) ==
    IF multiCharOperatorAt(l, start) # 0
    THEN LexToken(advance(l, Len(MULTI_CHAR_OPERATORS[
                                    multiCharOperatorAt(l, start)])),
                  MULTI_CHAR_OPERATORS[multiCharOperatorAt(l, start)],
                  "operator", start)
    ELSE IF charAt(l, start) \in SINGLE_CHAR_OPERATORS
    THEN LexToken(advance(l, 1), charAt(l, start), "operator", start)
    ELSE IF charAt(l, start) \in PUNCTUATION
    THEN LexToken(l, charAt(l, start), "punctuation", start)
    ELSE LexToken(l, "", "", start)

\* A token of kind "" stands for the null the source returns.
lexOperatorOrPunctuation(l, start) ==
    IF multiCharOperatorAt(l, start) # 0
    THEN LexToken(advance(l, Len(MULTI_CHAR_OPERATORS[
                                    multiCharOperatorAt(l, start)])),
                  MULTI_CHAR_OPERATORS[multiCharOperatorAt(l, start)],
                  "operator", start)
    ELSE IF charAt(l, start) \in SINGLE_CHAR_OPERATORS
    THEN LexToken(advance(l, 1), charAt(l, start), "operator", start)
    ELSE IF charAt(l, start) \in PUNCTUATION
    THEN LexToken(advance(l, 1), charAt(l, start), "punctuation", start)
    ELSE LexToken(l, "", "", start)

\* lex() once skipTrivia() has returned.
triviaSkipped(l) ==
    IF l.err # NoLexError THEN LexToken(l, "", "", l.pos)
    ELSE IF l.pos >= Len(l.input) THEN LexToken(l, "EOF", "EOF", l.pos)
    ELSE IF charAt(l, l.pos) \in Letters \cup {"_"}
    THEN lexIdentifierOrKeyword(l, l.pos)
    ELSE IF charAt(l, l.pos) \in DecimalDigits
            \/ (charAt(l, l.pos) = "."
                /\ charAt(l, l.pos + 1) \in DecimalDigits)
    THEN lexNumber(l, l.pos)
    ELSE IF charAt(l, l.pos) \in {"\"", "'"} THEN lexString(l, l.pos)
    ELSE IF lexOperatorOrPunctuation(l, l.pos).token.kind # ""
    THEN lexOperatorOrPunctuation(l, l.pos)
    ELSE LexToken(LexFail(l, "UnexpectedCharacter", charAt(l, l.pos), l.pos,
                          l.pos + 1),
                  "", "", l.pos)

lex(l) == triviaSkipped(skipTrivia(l))

(***************************************************************************)
(* Inputs.  Every token sequence is one the Lexer produces for the tokens  *)
(* written with blanks between them.                                       *)
(***************************************************************************)
RECURSIVE Flatten(_)
Flatten(ss) == IF ss = <<>> THEN <<>> ELSE Head(ss) \o Flatten(Tail(ss))

RECURSIVE JoinWith(_, _)
JoinWith(ss, sep) ==
    IF ss = <<>> THEN <<>>
    ELSE IF Len(ss) = 1 THEN ss[1]
    ELSE ss[1] \o <<sep>> \o JoinWith(Tail(ss), sep)

SeqsUpTo(S, n) == UNION {[1..k -> S] : k \in 0..n}

\* Every token sequence of at most MaxLen tokens over a small alphabet.
Alphabet ==
    {Id("x"), Id("EOF"), Str("EOF"), Num("1"), Op("+"), Op("/"), Pu(";"),
     Pu("("), Pu(")"), Pu(",")}

ShortInputs == SeqsUpTo(Alphabet, MaxLen)

\* A base with at most MaxScripts script attachments, alone or before + y.
\* The Lexer reads a _ standing alone as an identifier of text "_" (lex
\* tests /[A-Za-z_]/ before the operator table); the parser recognises the
\* script markers by their text.
ScriptForms ==
    {<<m>> \o a : m \in {Op("^"), Id("_")},
                  a \in {<<Num("1")>>, <<Num("2")>>,
                             <<Pu("{"), Num("3"), Pu("}")>>}}

ScriptInputs ==
    {<<Id("x")>> \o Flatten(ss) \o t :
        ss \in SeqsUpTo(ScriptForms, MaxScripts),
        t \in {<<>>, <<Op("+"), Id("y")>>}}

\* Statement lists of at most MaxStmts lets and uses of two names.
LetTokens(name, body) == <<Id("let"), Id(name), Op("=")>> \o body

BindStatements ==
    {LetTokens("a", <<Id("x")>>), LetTokens("a", <<Id("y")>>),
     LetTokens("b", <<Id("a")>>), <<Id("a")>>, <<Id("b")>>, <<Id("z")>>}

BindPrograms ==
    {JoinWith(ss, Pu(";")) \o t :
        ss \in SeqsUpTo(BindStatements, MaxStmts) \ {<<>>},
        t \in {<<>>, <<Pu(";")>>}}

\* let t = e; rest, for bodies and uses of several shapes.
SubstBodies ==
    {<<Num("2")>>, <<Id("x"), Op("+"), Num("1")>>, <<Id("x"), Op("^"), Num("2")>>,
     <<Str("ab")>>, <<Id("sqrt"), Pu("("), Id("x"), Op("^"), Num("2"), Pu(")")>>}

SubstRests ==
    {<<Id("t")>>, <<Id("t"), Op("+"), Id("t")>>, <<Num("3"), Id("t")>>,
     <<Id("t"), Pu("("), Id("y"), Pu(")")>>,
     <<Id("t"), Op("^"), Num("3")>>,
     <<Id("t"), Pu(";"), Id("t")>>,
     <<Id("frac"), Pu("("), Id("t"), Op("+"), Num("1"), Pu(","),
       Id("t"), Op("-"), Num("1"), Pu(")")>>}

SubstPrograms ==
    {LetTokens("t", e) \o <<Pu(";")>> \o r : e \in SubstBodies, r \in SubstRests}

\* name(arg, ..., arg) with at most MaxArgs arguments, possibly empty ones.
CallNames == ArityNames \cup {"f", "sin"}

ArgForms ==
    {<<>>, <<Id("x")>>, <<Id("hat")>>,
     <<Id("sqrt"), Pu("("), Id("x"), Pu(")")>>}

CallTokens(name, args) ==
    <<Id(name), Pu("(")>> \o JoinWith(args, Pu(",")) \o <<Pu(")")>>

CallInputs ==
    {CallTokens(name, args) : name \in CallNames,
                              args \in SeqsUpTo(ArgForms, MaxArgs)}

\* a op b op c op d: at most MaxOperands operands in a fixed order, with an
\* operator or nothing between neighbours.
Operands == <<Id("a"), Id("b"), Id("c"), Id("d"), Id("e")>>

Infixes == {<<Op("+")>>, <<Op("-")>>, <<Op("*")>>, <<Op("/")>>, <<>>}

RECURSIVE Chain(_, _)
Chain(ops, i) ==
    IF i > Len(ops) THEN <<Operands[i]>>
    ELSE <<Operands[i]>> \o ops[i] \o Chain(ops, i + 1)

ArithInputs ==
    {Chain(ops, 1) : ops \in SeqsUpTo(Infixes, MaxOperands - 1)}

\* The same chains after a leading unary minus.
NegatedInputs == {<<Op("-")>> \o tokens : tokens \in ArithInputs}

\* A unary plus or minus with and without an operand, as an expression, as
\* an operand, as an argument and as the value of a let.
SignedOperands ==
    {<<Op("+")>>, <<Op("-")>>, <<Op("+"), Op("+")>>, <<Op("+"), Id("x")>>,
     <<Op("-"), Op("+")>>, <<Op("-"), Op("+"), Id("x")>>}

SignedContexts ==
    {[before |-> <<>>, after |-> <<>>],
     [before |-> <<>>, after |-> <<Pu(";"), Id("y")>>],
     [before |-> <<Id("x"), Op("*")>>, after |-> <<>>],
     [before |-> <<Id("x"), Op("=")>>, after |-> <<>>],
     [before |-> <<Pu("(")>>, after |-> <<Pu(")")>>],
     [before |-> <<Id("sqrt"), Pu("(")>>, after |-> <<Pu(")")>>],
     [before |-> LetTokens("t", <<>>), after |-> <<Pu(";")>>],
     [before |-> LetTokens("t", <<>>), after |-> <<Pu(";"), Id("t")>>]}

SignedInputs ==
    {c.before \o s \o c.after : c \in SignedContexts, s \in SignedOperands}

\* u v and u * v for operands that can start a primary.
PrimaryForms ==
    {<<Id("x")>>, <<Num("2")>>, <<Str("s")>>, <<Str("+")>>,
     <<Pu("("), Id("y"), Pu(")")>>, <<Pu("["), Id("y"), Pu("]")>>,
     <<Pu("{"), Id("y"), Pu("}")>>}

PairInputs ==
    {u \o m \o v : u \in PrimaryForms, v \in PrimaryForms,
                   m \in {<<>>, <<Op("*")>>}}

\* cases(row; ...; row) with at most MaxRows rows, with and without a ;
\* before the closing parenthesis.
RowForms ==
    {<<>>, <<Id("a")>>, <<Id("a"), Pu(","), Id("b")>>,
     <<Id("a"), Pu(","), Id("b"), Pu(","), Id("c")>>,
     <<Op("-"), Id("x"), Pu(","), Str("if")>>, <<Id("a"), Pu(",")>>}

CasesTokens(rows, end) ==
    <<Id("cases"), Pu("(")>> \o JoinWith(rows, Pu(";")) \o end \o <<Pu(")")>>

CasesInputs ==
    {CasesTokens(rows, end) : rows \in SeqsUpTo(RowForms, MaxRows),
                              end \in {<<>>, <<Pu(";")>>}}

\* accent(base, kind) for kinds written as identifiers, strings, numbers,
\* expressions and nothing.
AccentBases == {<<Id("a")>>, <<Id("x"), Op("^"), Num("2")>>}

AccentKinds ==
    {<<Id("arrow")>>, <<Id("vec")>>, <<Id("hat")>>, <<Id("Hat")>>,
     <<Str(" Hat ")>>, <<Id("zz")>>, <<Str("zz")>>, <<Num("2")>>,
     <<Id("pi")>>, <<Str("constructor")>>, <<Str("")>>, <<>>,
     <<Id("x"), Op("^"), Num("2")>>,
     <<Id("sqrt"), Pu("("), Id("x"), Pu(")")>>}

AccentTokens(base, kind) ==
    <<Id("accent"), Pu("(")>> \o base \o <<Pu(",")>> \o kind \o <<Pu(")")>>

AccentInputs ==
    {AccentTokens(base, kind) : base \in AccentBases, kind \in AccentKinds}

\* An identifier of every lowering rule, alone and before ( y ), unbound and
\* after let name = 2.
IdentifierNames == {"x", "ab", "pi", "sin", "constructor", "toString"}

IdentifierUse(name, call) ==
    IF call THEN <<Id(name), Pu("("), Id("y"), Pu(")")>> ELSE <<Id(name)>>

IdentifierTokens(name, isBound, call) ==
    (IF isBound THEN LetTokens(name, <<Num("2")>>) \o <<Pu(";")>> ELSE <<>>)
        \o IdentifierUse(name, call)

IdentifierInputs ==
    {IdentifierTokens(name, isBound, call) :
        name \in IdentifierNames, isBound \in BOOLEAN, call \in BOOLEAN}

\* A string literal where an operand may start: at the start of the input,
\* after a factor, after *, and in parentheses.
StringTexts == {"s", "+", "-", "^", ";", ",", ")", "EOF"}

StringContexts ==
    {[before |-> <<>>, after |-> <<>>],
     [before |-> <<Id("a")>>, after |-> <<>>],
     [before |-> <<Id("a"), Op("*")>>, after |-> <<>>],
     [before |-> <<Pu("(")>>, after |-> <<Pu(")")>>]}

StringTokens(c, text) == c.before \o <<Str(text)>> \o c.after

StringInputs ==
    {StringTokens(c, text) : c \in StringContexts, text \in StringTexts}

Inputs ==
    ShortInputs \cup ScriptInputs \cup BindPrograms \cup SubstPrograms
        \cup CallInputs \cup ArithInputs \cup PairInputs \cup CasesInputs
        \cup AccentInputs \cup IdentifierInputs \cup StringInputs
        \cup NegatedInputs \cup SignedInputs

(***************************************************************************)
(* The state machine: new Parser(input), then parse() one statement per    *)
(* step.                                                                   *)
(***************************************************************************)
Init ==
    /\ parser \in {NewParser(input) : input \in Inputs}
    /\ pc = "parse"
    /\ lastExpression = <<>>
    /\ result = <<>>
    /\ lexer = NewLexer("")
    /\ stream = <<>>

\* The parser after one iteration s of the loop; last is lastExpression
\* after it.  A thrown error ends parse().
stepped(s, last) ==
    /\ parser' = s.p
    /\ pc' = IF Ok(s) THEN "parse" ELSE "error"
    /\ lastExpression' = IF Ok(s) THEN last ELSE lastExpression

\* lastExpression = this.parseExpression(...), then the end of the iteration.
expressed(s) == stepped(s, s.v)

LetStatement ==
    /\ pc = "parse"
    /\ fetch(parser).text # "EOF"
    /\ isLetStatement(parser)
    /\ stepped(letStep(parser), lastExpression)
    /\ UNCHANGED <<result, lexer, stream>>

ExpressionStatement ==
    /\ pc = "parse"
    /\ fetch(parser).text # "EOF"
    /\ ~isLetStatement(parser)
    /\ expressed(expressionStep(parser))
    /\ UNCHANGED <<result, lexer, stream>>

Finish ==
    /\ pc = "parse"
    /\ fetch(parser).text = "EOF"
    /\ parser' = expect(parser, "EOF").p
    /\ pc' = "done"
    /\ result' = lastExpression
    /\ UNCHANGED <<lastExpression, lexer, stream>>

Next == LetStatement \/ ExpressionStatement \/ Finish

Spec == Init /\ [][Next]_vars

(***************************************************************************)
(* The lexer under repeated lex() calls, as Parser.fetch() makes them, and *)
(* parseTree over the tokens they return.  The input is a string of at     *)
(* most MaxPieces pieces.  stream records every token returned, with the   *)
(* lexer position before and after the call.  A thrown lexical error ends  *)
(* the run in pc = "lexerror": the fetch() that made the call passes the   *)
(* error on and parse() fails.  lex() is called at most MaxEOFCalls times  *)
(* at the end of the input, and no more often than the input has           *)
(* characters before it.                                                   *)
(***************************************************************************)
Pieces ==
    {"x", "1", "_", "x_1", "+", "-", "*", "/", "^", "=", "<", ">", "!", " ",
     ".", "\"", "§"}

\* Inputs with block comments: opened, closed, overlapping and written one
\* inside the other.
CommentPieces == {"/*", "*/", "/", "*", "x", " "}

CommentInputs == {Join(ps) : ps \in SeqsUpTo(CommentPieces, MaxCommentPieces)}

LexInputs == {Join(ps) : ps \in SeqsUpTo(Pieces, MaxPieces)} \cup CommentInputs

EOFCalls == Len(SelectSeq(stream, LAMBDA t : t.kind = "EOF"))

\* The tokens the parser has fetched before the first EOF.
Fetched ==
    [i \in 1..Len(SelectSeq(stream, LAMBDA t : t.kind # "EOF")) |->
        Token(SelectSeq(stream, LAMBDA t : t.kind # "EOF")[i].text,
              SelectSeq(stream, LAMBDA t : t.kind # "EOF")[i].kind)]

LexInit ==
    /\ lexer \in {NewLexer(input) : input \in LexInputs}
    /\ stream = <<>>
    /\ parser = NewParser(<<>>)
    /\ pc = "lex"
    /\ lastExpression = <<>>
    /\ result = <<>>

\* The lexer and the stream after a lex() call that returned r.
lexed(r) ==
    /\ lexer' = r.l
    /\ stream' = IF r.l.err = NoLexError
                 THEN Append(stream, r.token @@ [before |-> lexer.pos,
                                                 after |-> r.l.pos])
                 ELSE stream
    /\ pc' = IF r.l.err = NoLexError THEN "lex" ELSE "lexerror"

Lex ==
    /\ pc = "lex"
    /\ EOFCalls < MaxEOFCalls
    /\ Len(stream) < Len(lexer.input) + MaxEOFCalls
    /\ lexed(lex(lexer))
    /\ UNCHANGED <<parser, lastExpression, result>>

\* parser.parse() over the tokens of an input without lexical error.
parsed(s) ==
    /\ parser' = s.p
    /\ pc' = s.pc
    /\ lastExpression' = s.v
    /\ result' = IF s.pc = "done" THEN s.v ELSE <<>>

ParseTree ==
    /\ pc = "lex"
    /\ EOFCalls > 0
    /\ parsed(parse(Fetched))
    /\ UNCHANGED <<lexer, stream>>

LexNext == Lex \/ ParseTree

LexSpec == LexInit /\ [][LexNext]_vars

\* lex() is called again as long as the parser fetches.
LexFairSpec == LexSpec /\ WF_vars(Lex)

(***************************************************************************)
(* Properties.  AST values are compared without loc and without object     *)
(* identity; object identity is compared through the set of ids.           *)
(***************************************************************************)
RECURSIVE Strip(_)
Strip(value) ==
    IF ~IsNode(value) THEN value
    ELSE [k \in DOMAIN value \ {"loc", "id"} |->
            CASE k \in NodeKeys -> Strip(value[k])
              [] k = "body" /\ value.type = "array" ->
                    [i \in 1..Len(value[k]) |->
                        [j \in 1..Len(value[k][i]) |-> Strip(value[k][i][j])]]
              [] k \in ArrayKeys ->
                    [i \in 1..Len(value[k]) |-> Strip(value[k][i])]
              [] OTHER -> value[k]]

StripAll(nodes) == [i \in 1..Len(nodes) |-> Strip(nodes[i])]

\* Every node object of a value, at any depth.
RECURSIVE NodesOf(_)
NodesOf(value) ==
    IF ~IsNode(value) THEN {}
    ELSE {value}
         \cup UNION {NodesOf(value[k]) : k \in DOMAIN value \cap NodeKeys}
         \cup UNION {IF k = "body" /\ value.type = "array"
                     THEN UNION {UNION {NodesOf(value[k][i][j]) :
                                           j \in 1..Len(value[k][i])} :
                                    i \in 1..Len(value[k])}
                     ELSE UNION {NodesOf(value[k][i]) : i \in 1..Len(value[k])} :
                     k \in DOMAIN value \cap ArrayKeys}

NodesIn(nodes) == UNION {NodesOf(nodes[i]) : i \in 1..Len(nodes)}

\* The identities of the node objects of a node sequence.
IdsIn(nodes) == {n.id : n \in {m \in NodesIn(nodes) : "id" \in DOMAIN m}}

\* parse() has returned or thrown.
Terminated == pc \in {"done", "error"}

\* The nodes of a one-letter identifier and of a number, without loc.
Letter(name) == [type |-> "mathord", mode |-> "math", text |-> name]

Digits(text) == [type |-> "textord", mode |-> "math", text |-> text]

Symbol(family, text) ==
    [type |-> "atom", mode |-> "math", family |-> family, text |-> text]

(***************************************************************************)
(* C1.  When parse() returns a node sequence, the whole input has been     *)
(* consumed: no token of the input lies after the token that parse()       *)
(* accepted as the end of input.  parser.pos is the index of the next      *)
(* token; the input has Len(parser.input) tokens before the lexer's EOF.   *)
(***************************************************************************)
C1_WholeInputConsumed ==
    pc = "done" => parser.pos > Len(parser.input)

\* A successful parse of an input of several tokens.
C1_Witness ==
    pc = "done" /\ Len(parser.input) >= 2 /\ result # <<>>

(***************************************************************************)
(* C2.  x followed by one _ script and one ^ script, in either order and   *)
(* with unbraced single-token arguments, alone or before + y, parses to    *)
(* one supsub node whose base is x, whose sub is the _ argument and whose  *)
(* sup is the ^ argument (followed by the + node and y).                   *)
(***************************************************************************)
ScriptTail == {<<>>, <<Op("+"), Id("y")>>}

TailNodes(t) == IF t = <<>> THEN <<>> ELSE <<Symbol("bin", "+"), Letter("y")>>

SupSub(base, sup, sub) ==
    [type |-> "supsub", mode |-> "math", base |-> base, sup |-> sup,
     sub |-> sub]

C2_OneSupSub ==
    \A a \in {"1", "2"}, b \in {"1", "2"}, t \in ScriptTail :
        /\ (Terminated
            /\ parser.input = <<Id("x"), Id("_"), Num(a), Op("^"), Num(b)>> \o t)
           => /\ pc = "done"
              /\ StripAll(result) =
                    <<SupSub(Letter("x"), Digits(b), Digits(a))>> \o TailNodes(t)
        /\ (Terminated
            /\ parser.input = <<Id("x"), Op("^"), Num(b), Id("_"), Num(a)>> \o t)
           => /\ pc = "done"
              /\ StripAll(result) =
                    <<SupSub(Letter("x"), Digits(b), Digits(a))>> \o TailNodes(t)

\* The input x _ 1 ^ 2 + y has been parsed.
C2_Witness ==
    /\ pc = "done"
    /\ parser.input = <<Id("x"), Id("_"), Num("1"), Op("^"), Num("2"),
                        Op("+"), Id("y")>>

(***************************************************************************)
(* C3.  For let t = e; rest, parse() ends as it ends on rest with every    *)
(* token t replaced by the node e lowers to: the token of e when e is one  *)
(* token, the group { e } (an ordgroup of e's nodes) when e has several    *)
(* nodes; the results are equal without loc.  The rests have t before +,   *)
(* ^, ;, a juxtaposed operand, inside call arguments and before (.         *)
(***************************************************************************)
InlinableBodies == {<<Num("2")>>, <<Id("x"), Op("+"), Num("1")>>}

Inlined(e) == IF Len(e) = 1 THEN e ELSE <<Pu("{")>> \o e \o <<Pu("}")>>

RECURSIVE Inline(_, _, _)
Inline(rest, name, e) ==
    IF rest = <<>> THEN <<>>
    ELSE (IF Head(rest) = Id(name) THEN Inlined(e) ELSE <<Head(rest)>>)
         \o Inline(Tail(rest), name, e)

C3_SubstitutionIsInlining ==
    \A e \in InlinableBodies, r \in SubstRests :
        (Terminated /\ parser.input = LetTokens("t", e) \o <<Pu(";")>> \o r)
        => /\ pc = parse(Inline(r, "t", e)).pc
           /\ StripAll(result) = StripAll(parse(Inline(r, "t", e)).v)

\* let t = 2; t(y) has been parsed.
C3_Witness ==
    /\ pc = "done"
    /\ parser.input = LetTokens("t", <<Num("2")>>)
                        \o <<Pu(";"), Id("t"), Pu("("), Id("y"), Pu(")")>>

(***************************************************************************)
(* C4.  Every substitution of a let-bound identifier returns a fresh deep  *)
(* copy: the nodes it returned are equal to the stored value without loc,  *)
(* and no node object of them, at any depth, is a node object of the       *)
(* stored binding value, of the node sequence parsed for the let body, or  *)
(* of another substitution of the same binding.                            *)
(***************************************************************************)
C4_FreshDeepCopy ==
    \A i \in DOMAIN parser.subs :
        /\ StripAll(parser.subs[i].nodes)
              = StripAll(parser.lets[parser.subs[i].let].stored)
        /\ IdsIn(parser.subs[i].nodes)
              \cap IdsIn(parser.lets[parser.subs[i].let].stored) = {}
        /\ IdsIn(parser.subs[i].nodes)
              \cap IdsIn(parser.lets[parser.subs[i].let].value) = {}
        /\ parser.letOf[parser.subs[i].name] = parser.subs[i].let
           => IdsIn(parser.subs[i].nodes)
                 \cap IdsIn(parser.definitions[parser.subs[i].name]) = {}
        /\ \A j \in DOMAIN parser.subs \ {i} :
              parser.subs[j].let = parser.subs[i].let
              => IdsIn(parser.subs[i].nodes) \cap IdsIn(parser.subs[j].nodes)
                    = {}

\* Two substitutions of one binding whose value has nested nodes.
C4_Witness ==
    /\ pc = "done"
    /\ \E i, j \in DOMAIN parser.subs :
          /\ i # j
          /\ parser.subs[i].let = parser.subs[j].let
          /\ Cardinality(IdsIn(parser.subs[i].nodes)) >= 3

(***************************************************************************)
(* C5.  A binding holds the value its let statement computed.  At every    *)
(* step, each name is bound to the value parsed by the most recent let of  *)
(* that name, each substitution returned the value of the most recent let  *)
(* of its name before it, and let a = x; let b = a; let a = y; b yields x. *)
(***************************************************************************)
\* The last of the first k let statements that binds name.
MostRecentLet(name, k) ==
    CHOOSE i \in 1..k :
        /\ parser.lets[i].name = name
        /\ \A j \in (i + 1)..k : parser.lets[j].name # name

RebindProgram ==
    JoinWith(<<LetTokens("a", <<Id("x")>>), LetTokens("b", <<Id("a")>>),
               LetTokens("a", <<Id("y")>>), <<Id("b")>>>>, Pu(";"))

C5_BindingHoldsItsValue ==
    /\ DOMAIN parser.definitions
          = {parser.lets[i].name : i \in DOMAIN parser.lets}
    /\ \A name \in DOMAIN parser.definitions :
          StripAll(parser.definitions[name])
             = StripAll(parser.lets[MostRecentLet(name, Len(parser.lets))].value)
    /\ \A i \in DOMAIN parser.subs :
          StripAll(parser.subs[i].nodes)
             = StripAll(parser.lets[MostRecentLet(parser.subs[i].name,
                                                  parser.subs[i].at)].value)
    /\ (Terminated /\ parser.input = RebindProgram)
       => pc = "done" /\ StripAll(result) = <<Letter("x")>>

\* The example has been parsed: a was bound twice, b was substituted.
C5_Witness ==
    /\ pc = "done"
    /\ parser.input = RebindProgram
    /\ Len(parser.lets) = 3
    /\ \E i \in DOMAIN parser.subs : parser.subs[i].name = "b"

(***************************************************************************)
(* C6.  / binds tighter than + and - and is never emitted as a symbol:     *)
(* a + b / c + d lowers to a, +, frac(b, c), +, d; a / b alone is the one  *)
(* node the \frac handler returns for a and b; and no node of a returned   *)
(* sequence or of a let value has the text /.  Every / of the inputs is an *)
(* operator token.                                                         *)
(***************************************************************************)
Frac(numer, denom) ==
    [type |-> "handler", funcName |-> "\\frac", mode |-> "math",
     args |-> <<numer, denom>>, optArgs |-> <<>>]

HasSlash(nodes) ==
    \E n \in NodesIn(nodes) : "text" \in DOMAIN n /\ n.text = "/"

C6_FractionPrecedence ==
    /\ (Terminated
        /\ parser.input = <<Id("a"), Op("+"), Id("b"), Op("/"), Id("c"),
                            Op("+"), Id("d")>>)
       => /\ pc = "done"
          /\ StripAll(result) =
                <<Letter("a"), Symbol("bin", "+"),
                  Frac(Letter("b"), Letter("c")), Symbol("bin", "+"),
                  Letter("d")>>
    /\ (Terminated
        /\ parser.input = <<Id("a"), Op("-"), Id("b"), Op("/"), Id("c")>>)
       => /\ pc = "done"
          /\ StripAll(result) =
                <<Letter("a"), Symbol("bin", "-"),
                  Frac(Letter("b"), Letter("c"))>>
    /\ (Terminated /\ parser.input = <<Id("a"), Op("/"), Id("b")>>)
       => /\ pc = "done"
          /\ StripAll(result) = <<Frac(Letter("a"), Letter("b"))>>
          /\ parser.calls = <<[funcName |-> "\\frac", token |-> 2]>>
    /\ pc = "done"
       => /\ ~HasSlash(result)
          /\ \A i \in DOMAIN parser.lets : ~HasSlash(parser.lets[i].value)

\* a + b / c + d has been parsed.
C6_Witness ==
    /\ pc = "done"
    /\ parser.input = <<Id("a"), Op("+"), Id("b"), Op("/"), Id("c"),
                        Op("+"), Id("d")>>
    /\ Len(result) = 5

(***************************************************************************)
(* C7.  For operands u and v that can each start a primary, u v and u * v  *)
(* end alike, and their node sequences are equal without loc once the      *)
(* \cdot node is removed from the second.                                  *)
(***************************************************************************)
IsCdot(n) == n = Symbol("bin", "\\cdot")

WithoutCdot(nodes) == SelectSeq(nodes, LAMBDA n : ~IsCdot(n))

C7_JuxtapositionIsTimes ==
    \A u \in PrimaryForms, v \in PrimaryForms :
        (Terminated /\ parser.input = u \o v)
        => /\ pc = parse(u \o <<Op("*")>> \o v).pc
           /\ StripAll(result)
                 = WithoutCdot(StripAll(parse(u \o <<Op("*")>> \o v).v))

\* x (y) has been parsed.
C7_Witness ==
    /\ pc = "done"
    /\ parser.input = <<Id("x"), Pu("("), Id("y"), Pu(")")>>

(***************************************************************************)
(* C8.  parse() returns the node sequence of the last expression statement *)
(* of the statement list: the result is the result of the list without its *)
(* earlier expression statements and without a trailing ;, and the empty   *)
(* input returns the empty sequence.  The statements are the token runs    *)
(* between the ; tokens that stand outside every group.                    *)
(***************************************************************************)
Openers == {Pu("("), Pu("["), Pu("{")}

Closers == {Pu(")"), Pu("]"), Pu("}")}

RECURSIVE Statements(_, _, _, _)
Statements(tokens, depth, current, acc) ==
    IF tokens = <<>>
    THEN IF current = <<>> THEN acc ELSE Append(acc, current)
    ELSE IF Head(tokens) = Pu(";") /\ depth = 0
    THEN Statements(Tail(tokens), 0, <<>>, Append(acc, current))
    ELSE Statements(Tail(tokens),
                    IF Head(tokens) \in Openers THEN depth + 1
                    ELSE IF Head(tokens) \in Closers THEN depth - 1
                    ELSE depth,
                    Append(current, Head(tokens)), acc)

IsLet(tokens) == tokens # <<>> /\ tokens[1] = Id("let")

\* The let statements and the last expression statement, in order.
RECURSIVE Kept(_, _, _)
Kept(statements, i, last) ==
    IF i > Len(statements) THEN <<>>
    ELSE (IF IsLet(statements[i]) \/ i = last THEN <<statements[i]>> ELSE <<>>)
         \o Kept(statements, i + 1, last)

LastExpression(statements) ==
    IF \E i \in DOMAIN statements : ~IsLet(statements[i])
    THEN CHOOSE i \in DOMAIN statements :
            /\ ~IsLet(statements[i])
            /\ \A j \in DOMAIN statements : j > i => IsLet(statements[j])
    ELSE 0

Reduced(input) ==
    JoinWith(Kept(Statements(input, 0, <<>>, <<>>), 1,
                  LastExpression(Statements(input, 0, <<>>, <<>>))),
             Pu(";"))

C8_LastExpressionStatement ==
    /\ pc = "done"
       => /\ parse(Reduced(parser.input)).pc = "done"
          /\ StripAll(result) = StripAll(parse(Reduced(parser.input)).v)
    /\ (Terminated /\ parser.input = <<>>) => pc = "done" /\ result = <<>>

\* A list of two expression statements has been parsed.
C8_Witness ==
    /\ pc = "done"
    /\ Len(Statements(parser.input, 0, <<>>, <<>>)) = 2
    /\ LastExpression(Statements(parser.input, 0, <<>>, <<>>)) = 2
    /\ parser.input[Len(parser.input)] # Pu(";")

(***************************************************************************)
(* C9.  A call of frac, sqrt, root, accent, an accent name or a delimiter  *)
(* name whose number of comma-separated arguments differs from its arity   *)
(* throws at the call-name token, after no handler call for that token,    *)
(* and parse() returns nothing.                                            *)
(***************************************************************************)
ClaimedArity ==
    [name \in {"frac", "root", "accent"} |-> 2]
    @@ [name \in {"sqrt", "hat", "bar", "tilde", "dot", "ddot", "vec",
                  "overline", "underline", "abs", "norm", "floor", "ceil"}
           |-> 1]

\* The number of , tokens of tokens[i..] outside nested parentheses.
RECURSIVE Commas(_, _, _)
Commas(tokens, i, depth) ==
    IF i > Len(tokens) THEN 0
    ELSE IF tokens[i] = Pu("(") THEN Commas(tokens, i + 1, depth + 1)
    ELSE IF tokens[i] = Pu(")") THEN Commas(tokens, i + 1, depth - 1)
    ELSE (IF tokens[i] = Pu(",") /\ depth = 0 THEN 1 ELSE 0)
         + Commas(tokens, i + 1, depth)

\* The argument tokens of the call name ( ... ) that is the whole input.
Arguments(input) == SubSeq(input, 3, Len(input) - 1)

ArgumentCount(input) ==
    IF Arguments(input) = <<>> THEN 0 ELSE Commas(Arguments(input), 1, 0) + 1

C9_ArityMismatch ==
    \A name \in DOMAIN ClaimedArity :
        (/\ Terminated
         /\ parser.input \in CallInputs
         /\ parser.input[1] = Id(name)
         /\ ArgumentCount(parser.input) # ClaimedArity[name])
        => /\ pc = "error"
           /\ parser.err = [kind |-> "ArityMismatch", tok |-> 1, text |-> name]
           /\ \A i \in DOMAIN parser.calls : parser.calls[i].token # 1
           /\ result = <<>>

\* sqrt with two arguments has failed after the handler call of a nested
\* call in its arguments.
C9_Witness ==
    /\ pc = "error"
    /\ parser.input \in CallInputs
    /\ parser.input[1] = Id("sqrt")
    /\ ArgumentCount(parser.input) = 2
    /\ parser.calls # <<>>

(***************************************************************************)
(* C10.  A call whose argument list has a , immediately before the closing *)
(* ) fails to parse, and the number of arguments a call passes to lowering *)
(* is the number of non-empty argument expressions written.                *)
(***************************************************************************)
TrailingComma(input) ==
    /\ Len(input) >= 4
    /\ input[1].kind = "identifier"
    /\ input[2] = Pu("(")
    /\ input[Len(input) - 1] = Pu(",")
    /\ input[Len(input)] = Pu(")")

\* The number of non-empty runs between the depth-0 commas of tokens[i..].
RECURSIVE NonEmpty(_, _, _, _)
NonEmpty(tokens, i, depth, some) ==
    IF i > Len(tokens) THEN IF some THEN 1 ELSE 0
    ELSE IF tokens[i] = Pu(",") /\ depth = 0
    THEN (IF some THEN 1 ELSE 0) + NonEmpty(tokens, i + 1, depth, FALSE)
    ELSE NonEmpty(tokens, i + 1,
                  IF tokens[i] = Pu("(") THEN depth + 1
                  ELSE IF tokens[i] = Pu(")") THEN depth - 1 ELSE depth,
                  TRUE)

C10_NoTrailingComma ==
    /\ (Terminated /\ TrailingComma(parser.input)) => pc = "error"
    /\ (pc = "done" /\ parser.input \in CallInputs)
       => \A i \in DOMAIN parser.argc :
             parser.argc[i].token = 1
             => parser.argc[i].n = NonEmpty(Arguments(parser.input), 1, 0, FALSE)

\* frac(x,) has been parsed.
C10_Witness ==
    /\ pc = "done"
    /\ parser.input = <<Id("frac"), Pu("("), Id("x"), Pu(","), Pu(")")>>

(***************************************************************************)
(* C11.  In cases(...), a ; directly before the closing ) adds no row:     *)
(* the array has the same rows as for the call without that ;, and the     *)
(* number of rows of the array is the number of ;-separated rows that      *)
(* contain at least one cell expression.                                   *)
(***************************************************************************)
\* The rows of the array of a parsed cases call.
ArrayOf(nodes) == nodes[1].body[1]

\* The number of runs between the depth-0 ; of tokens[i..] that hold a token
\* other than a comma.
RECURSIVE RowsWritten(_, _, _, _)
RowsWritten(tokens, i, depth, some) ==
    IF i > Len(tokens) THEN IF some THEN 1 ELSE 0
    ELSE IF tokens[i] = Pu(";") /\ depth = 0
    THEN (IF some THEN 1 ELSE 0) + RowsWritten(tokens, i + 1, depth, FALSE)
    ELSE RowsWritten(tokens, i + 1,
                     IF tokens[i] = Pu("(") THEN depth + 1
                     ELSE IF tokens[i] = Pu(")") THEN depth - 1 ELSE depth,
                     some \/ tokens[i] # Pu(","))

\* tokens ends with ; ) after at least one row.
TrailingSemicolon(tokens) ==
    /\ Len(tokens) >= 5
    /\ tokens[Len(tokens) - 1] = Pu(";")
    /\ tokens[Len(tokens) - 2] # Pu(";")

\* tokens without the ; before its closing parenthesis.
WithoutTrailingSemicolon(tokens) ==
    SubSeq(tokens, 1, Len(tokens) - 2) \o <<Pu(")")>>

C11_TrailingSemicolonAddsNoRow ==
    (pc = "done" /\ parser.input \in CasesInputs)
    => /\ Len(ArrayOf(result).body) =
              RowsWritten(Arguments(parser.input), 1, 0, FALSE)
       /\ TrailingSemicolon(parser.input)
          => Strip(ArrayOf(result)).body =
                Strip(ArrayOf(parse(WithoutTrailingSemicolon(parser.input)).v)).body

\* cases(a, b;) has been parsed.
C11_Witness ==
    /\ pc = "done"
    /\ parser.input = CasesTokens(<<<<Id("a"), Pu(","), Id("b")>>>>, <<Pu(";")>>)

(***************************************************************************)
(* C12.  For every successful cases call with R rows and M the largest     *)
(* cell count of a row: the array body has R rows of exactly M styling     *)
(* cells each; cols has M left-aligned entries with pregap 0, and postgap  *)
(* is 1 for the first column exactly when M > 1 and 0 for every other      *)
(* column; rowGaps has R - 1 entries and hLinesBeforeRow R + 1; the array  *)
(* is the only body element of a leftright with left \{ and right ".".     *)
(***************************************************************************)
\* The largest of the numbers of a non-empty sequence.
Largest(counts) ==
    CHOOSE m \in {counts[i] : i \in DOMAIN counts} :
        \A i \in DOMAIN counts : counts[i] <= m

CasesShape(node, rowCount, maxCols) ==
    /\ node.type = "leftright"
    /\ node.left = "\\{"
    /\ node.right = "."
    /\ Len(node.body) = 1
    /\ LET array == node.body[1]
       IN  /\ array.type = "array"
           /\ Len(array.body) = rowCount
           /\ \A i \in 1..rowCount :
                 /\ Len(array.body[i]) = maxCols
                 /\ \A j \in 1..maxCols : array.body[i][j].type = "styling"
           /\ Len(array.cols) = maxCols
           /\ \A j \in 1..maxCols :
                 /\ array.cols[j].align = "l"
                 /\ array.cols[j].pregap = 0
                 /\ array.cols[j].postgap = (IF j = 1 /\ maxCols > 1 THEN 1 ELSE 0)
           /\ Len(array.rowGaps) = rowCount - 1
           /\ Len(array.hLinesBeforeRow) = rowCount + 1

C12_CasesArrayShape ==
    (pc = "done" /\ parser.input \in CasesInputs)
    => /\ Len(parser.cases) = 1
       /\ Len(result) = 1
       /\ CasesShape(result[1], Len(parser.cases[1]), Largest(parser.cases[1]))

\* A call of two rows of different lengths has been parsed.
C12_Witness ==
    /\ pc = "done"
    /\ parser.input \in CasesInputs
    /\ Len(parser.cases) = 1
    /\ Len(parser.cases[1]) = 2
    /\ parser.cases[1][1] = 3
    /\ parser.cases[1][2] = 1

(***************************************************************************)
(* C13.  accent(base, kind) reduces kind to plain text, trims and          *)
(* lower-cases it, and calls the handler mapped to that name with base as  *)
(* the only argument: arrow and vec both call \vec; a kind whose text is   *)
(* not in the accent table fails with the unsupported-accent error; a kind *)
(* that is not non-empty plain text fails with the accent-kind-must-be-    *)
(* text error; in both failures no handler is called for the accent call.  *)
(***************************************************************************)
\* What the claim says of every kind written in AccentKinds.
AccentOutcome ==
    [kind \in AccentKinds |->
        CASE kind \in {<<Id("arrow")>>, <<Id("vec")>>} -> "\\vec"
          [] kind \in {<<Id("hat")>>, <<Id("Hat")>>, <<Str(" Hat ")>>} -> "\\hat"
          [] kind \in {<<Id("zz")>>, <<Str("zz")>>, <<Num("2")>>, <<Id("pi")>>,
                       <<Str("constructor")>>} -> "UnsupportedAccent"
          [] OTHER -> "AccentKindMustBeText"]

\* The calls made for the call whose name is the first token.
CallsOfFirstToken ==
    {i \in DOMAIN parser.calls : parser.calls[i].token = 1}

C13_AccentKind ==
    \A base \in AccentBases, kind \in AccentKinds :
        (Terminated /\ parser.input = AccentTokens(base, kind))
        => IF AccentOutcome[kind] \in functions
           THEN /\ pc = "done"
                /\ Len(result) = 1
                /\ result[1].type = "handler"
                /\ result[1].funcName = AccentOutcome[kind]
                /\ StripAll(result[1].args) =
                      <<Strip(nodesToArgument(
                                 parser, parse(base).v).v)>>
                /\ result[1].optArgs = <<>>
                /\ \A i \in CallsOfFirstToken :
                      parser.calls[i].funcName = AccentOutcome[kind]
           ELSE /\ pc = "error"
                /\ parser.err = [kind |-> AccentOutcome[kind], tok |-> 1,
                                 text |-> "accent"]
                /\ CallsOfFirstToken = {}

\* accent(a, arrow) has called the \vec handler.
C13_Witness ==
    /\ pc = "done"
    /\ parser.input = AccentTokens(<<Id("a")>>, <<Id("arrow")>>)
    /\ \E i \in DOMAIN parser.calls : parser.calls[i].funcName = "\\vec"

(***************************************************************************)
(* C15.  A second ^ (a second _) after the script argument of the same     *)
(* base fails with the double-superscript (double-subscript) error and no  *)
(* AST is returned, for braced and for unbraced arguments alike.           *)
(***************************************************************************)
ScriptArguments ==
    {<<Num("1")>>, <<Num("2")>>, <<Pu("{"), Num("3"), Pu("}")>>}

DoubleScriptError ==
    (Op("^") :> "DoubleSuperscript") @@ (Id("_") :> "DoubleSubscript")

DoubleScript(m, a, b) == <<Id("x"), m>> \o a \o <<m>> \o b

C15_DoubleScript ==
    \A m \in DOMAIN DoubleScriptError, a \in ScriptArguments,
       b \in ScriptArguments :
        (Terminated /\ parser.input = DoubleScript(m, a, b))
        => /\ pc = "error"
           /\ parser.err.kind = DoubleScriptError[m]
           /\ result = <<>>

\* x^{3}^{3} has failed with the double-superscript error.
C15_Witness ==
    /\ pc = "error"
    /\ parser.input = DoubleScript(Op("^"), <<Pu("{"), Num("3"), Pu("}")>>,
                                   <<Pu("{"), Num("3"), Pu("}")>>)
    /\ parser.err.kind = "DoubleSuperscript"

(***************************************************************************)
(* C16.  An identifier in operand position is lowered by the first rule    *)
(* that applies: before ( it is a call, whether or not the name is bound   *)
(* or is a named symbol or operator; otherwise a let binding of the name   *)
(* wins over a named symbol, a named symbol over a named operator, a named *)
(* operator over the single-character rule, and every other name of        *)
(* several characters becomes an ordgroup of one symbol node per           *)
(* character, in order.                                                    *)
(***************************************************************************)
OrdGroup(body) == [type |-> "ordgroup", mode |-> "math", body |-> body]

\* The node of an unbound name that is not followed by (.
Unbound(name) ==
    CASE name \in GreekNames -> Letter("\\" \o name)
      [] name \in DOMAIN NAMED_OPERATORS ->
            [type |-> "handler", funcName |-> "\\" \o name, mode |-> "math",
             args |-> <<>>, optArgs |-> <<>>]
      [] Len(name) = 1 -> Letter(name)
      [] OTHER ->
            OrdGroup([i \in 1..Len(Explode(name)) |-> Letter(Explode(name)[i])])

C16_IdentifierPriority ==
    \A name \in IdentifierNames :
        /\ (Terminated /\ parser.input = IdentifierTokens(name, FALSE, FALSE))
           => pc = "done" /\ StripAll(result) = <<Unbound(name)>>
        /\ (Terminated /\ parser.input = IdentifierTokens(name, TRUE, FALSE))
           => /\ pc = "done"
              /\ StripAll(result) = <<Digits("2")>>
              /\ Len(parser.subs) = 1
        /\ \A isBound \in BOOLEAN :
              (Terminated /\ parser.input = IdentifierTokens(name, isBound, TRUE))
              => /\ pc = "done"
                 /\ parser.subs = <<>>
                 /\ \E i \in DOMAIN parser.argc :
                       /\ parser.input[parser.argc[i].token] = Id(name)
                       /\ parser.argc[i].n = 1
                 /\ StripAll(result) =
                       StripAll(parse(IdentifierUse(name, TRUE)).v)

\* The bound named symbol pi has been substituted.
C16_Witness ==
    /\ pc = "done"
    /\ parser.input = IdentifierTokens("pi", TRUE, FALSE)
    /\ Len(parser.subs) = 1

(***************************************************************************)
(* C17.  Every string token where an operand may start lowers to one text  *)
(* node whose body has one text-mode textord per character of the string,  *)
(* whatever the string is: a string whose text is that of an operator, a   *)
(* delimiter, a separator or EOF is never treated as one.                  *)
(***************************************************************************)
TextNode(text) ==
    [type |-> "text", mode |-> "math",
     body |-> [i \in 1..Len(Explode(text)) |->
                  [type |-> "textord", mode |-> "text",
                   text |-> Explode(text)[i]]]]

C17_StringIsText ==
    \A c \in StringContexts, text \in StringTexts :
        (Terminated /\ parser.input = StringTokens(c, text))
        => /\ pc = "done"
           /\ \E n \in NodesIn(result) : Strip(n) = TextNode(text)
           /\ c.before = <<>> /\ c.after = <<>>
              => StripAll(result) = <<TextNode(text)>>

\* The string "s" has been parsed to a text node.
C17_Witness ==
    /\ pc = "done"
    /\ parser.input = <<Str("s")>>
    /\ StripAll(result) = <<TextNode("s")>>

(***************************************************************************)
(* C20.  At the multiplicative level the numerator of a / is the whole     *)
(* left sequence accumulated so far (products, juxtaposed factors, a       *)
(* leading unary minus and earlier fractions, as an ordgroup when it has   *)
(* several nodes), the denominator is the next operand only, and the frac  *)
(* node is then the only element of left: a / b / c is frac(frac(a, b),    *)
(* c), a * b / c is frac(ordgroup{a, \cdot, b}, c), and a / b c is         *)
(* frac(a, b), c.                                                          *)
(***************************************************************************)
Argument(nodes) == IF Len(nodes) = 1 THEN nodes[1] ELSE OrdGroup(nodes)

\* The node sequence the claim gives a chain of one-letter operands:
\* finished holds the terms before the last + or -, left the current term.
RECURSIVE Lowered(_, _, _, _)
Lowered(tokens, i, finished, left) ==
    IF i > Len(tokens) THEN finished \o left
    ELSE IF tokens[i] = Op("-") /\ left = <<>>
    THEN Lowered(tokens, i + 1, finished, <<Symbol("bin", "-")>>)
    ELSE IF tokens[i] \in {Op("+"), Op("-")}
    THEN Lowered(tokens, i + 1,
                 finished \o left \o <<Symbol("bin", tokens[i].text)>>, <<>>)
    ELSE IF tokens[i] = Op("/")
    THEN Lowered(tokens, i + 2, finished,
                 <<Frac(Argument(left), Letter(tokens[i + 1].text))>>)
    ELSE IF tokens[i] = Op("*")
    THEN Lowered(tokens, i + 2, finished,
                 left \o <<Symbol("bin", "\\cdot"),
                           Letter(tokens[i + 1].text)>>)
    ELSE Lowered(tokens, i + 1, finished, left \o <<Letter(tokens[i].text)>>)

C20_FractionChaining ==
    (Terminated /\ parser.input \in ArithInputs \cup NegatedInputs)
    => /\ pc = "done"
       /\ StripAll(result) = Lowered(parser.input, 1, <<>>, <<>>)

\* a / b / c has been parsed to frac(frac(a, b), c).
C20_Witness ==
    /\ pc = "done"
    /\ parser.input = <<Id("a"), Op("/"), Id("b"), Op("/"), Id("c")>>
    /\ StripAll(result) = <<Frac(Frac(Letter("a"), Letter("b")), Letter("c"))>>

(***************************************************************************)
(* C14.  An input that is one character of none of the lexer's token       *)
(* classes, such as the section sign, parses successfully to one textord   *)
(* node carrying that character, through the symbol-table fallback.        *)
(***************************************************************************)
\* The run of lex() calls and parse() has ended.
Ended == pc \in {"done", "error", "lexerror"}

C14_UnknownCharacterIsTextord ==
    (Ended /\ lexer.input = "§")
    => /\ pc = "done"
       /\ StripAll(result) = <<Digits("§")>>

\* The first lex() call on the section sign has thrown.
C14_Witness ==
    /\ lexer.input = "§"
    /\ pc = "lexerror"
    /\ lexer.err.kind = "UnexpectedCharacter"
    /\ stream = <<>>

(***************************************************************************)
(* C18.  Each of + - * / ^ _ = < > !, when it is the first character after *)
(* trivia and does not begin a multi-character operator, is returned by    *)
(* lex() as a one-character token of kind operator; a _ between or before  *)
(* operands is the operator _, never part of an identifier.                *)
(***************************************************************************)
\* The character of the input at which token t starts.
FirstCharacter(t) == charAt(lexer, t.start)

BeginsMultiCharOperator(t) ==
    \E i \in DOMAIN MULTI_CHAR_OPERATORS :
        startsWith(lexer, MULTI_CHAR_OPERATORS[i], t.start)

HasUnderscore(text) == \E i \in 1..Len(text) : SubSeq(text, i, i) = "_"

C18_SingleCharacterOperators ==
    \A i \in DOMAIN stream :
        /\ (/\ stream[i].kind # "EOF"
            /\ FirstCharacter(stream[i]) \in SINGLE_CHAR_OPERATORS
            /\ ~BeginsMultiCharOperator(stream[i]))
           => /\ stream[i].kind = "operator"
              /\ stream[i].text = FirstCharacter(stream[i])
              /\ stream[i].end = stream[i].start + 1
        /\ stream[i].kind = "identifier" => ~HasUnderscore(stream[i].text)

\* x and + have been returned for x+.
C18_Witness ==
    /\ lexer.input = "x+"
    /\ Len(stream) >= 2
    /\ stream[2].kind = "operator"
    /\ stream[2].text = "+"

(***************************************************************************)
(* C19.  On an input without lexical error, repeated lex() calls return    *)
(* finitely many tokens that are not EOF, each ending after its start and  *)
(* starting no earlier than the end of the token before it, and then an    *)
(* EOF token; every further call returns an EOF token with start and end   *)
(* at the input length and leaves the lexer position unchanged.            *)
(***************************************************************************)
StreamInOrder ==
    \A i \in DOMAIN stream :
        IF stream[i].kind # "EOF"
        THEN /\ stream[i].end > stream[i].start
             /\ i > 1 => /\ stream[i - 1].kind # "EOF"
                         /\ stream[i].start >= stream[i - 1].end
        ELSE /\ stream[i].start = Len(lexer.input)
             /\ stream[i].end = Len(lexer.input)
             /\ stream[i].after = Len(lexer.input)
             /\ (i > 1 /\ stream[i - 1].kind = "EOF")
                => stream[i].after = stream[i].before

\* No more tokens than characters have been returned before EOF.
StreamFinite ==
    Len(SelectSeq(stream, LAMBDA t : t.kind # "EOF")) <= Len(lexer.input)

EOFReturned == EOFCalls > 0

C19_FiniteStreamThenEOF ==
    /\ [](StreamInOrder /\ StreamFinite)
    /\ <>(lexer.err # NoLexError \/ EOFReturned)

\* Two tokens and then EOF twice have been returned for x+.
C19_Witness ==
    /\ lexer.input = "x+"
    /\ Len(stream) = 4
    /\ EOFCalls = 2
    /\ stream[4].before = 2

(***************************************************************************)
(* C25.  parseIdentifier substitutes a binding only for a name that a let  *)
(* statement earlier in the same parse has bound: for every other name,    *)
(* whatever its spelling, the lookup finds nothing and lowering goes on    *)
(* with the named-symbol, named-operator, single-character and             *)
(* per-character rules, ending in a node or a parse error and in no other  *)
(* kind of failure.                                                        *)
(***************************************************************************)
\* The names the let statements parsed so far have bound.
LetBound == {parser.lets[i].name : i \in DOMAIN parser.lets}

C25_OnlyBoundNamesAreSubstituted ==
    /\ \A i \in DOMAIN parser.subs : parser.subs[i].name \in LetBound
    /\ parser.err.kind # "TypeError"
    /\ \A name \in IdentifierNames :
          (Terminated /\ parser.input = IdentifierTokens(name, FALSE, FALSE))
          => /\ pc = "done"
             /\ parser.subs = <<>>
             /\ Len(result) = 1

\* The unbound name ab has been lowered by the per-character rule.
C25_Witness ==
    /\ pc = "done"
    /\ parser.input = IdentifierTokens("ab", FALSE, FALSE)
    /\ parser.subs = <<>>
    /\ result[1].type = "ordgroup"

(***************************************************************************)
(* C26.  Whenever parseUnary, parseMultiplicative, parseAdditive or        *)
(* parseComparison returns an empty node sequence it has consumed no       *)
(* token; so a lone +, or let t = +;, does not parse successfully while    *)
(* an operator token is silently discarded.                                *)
(***************************************************************************)
\* The empty returns recorded so far that consumed a token.
EmptyAfterConsuming ==
    {i \in DOMAIN parser.empties :
        parser.empties[i].to # parser.empties[i].from}

LonePlus == <<Op("+")>>

LetPlus == LetTokens("t", <<Op("+")>>) \o <<Pu(";")>>

C26_EmptyReturnConsumesNothing ==
    /\ EmptyAfterConsuming = {}
    /\ parser.input \in {LonePlus, LetPlus} => pc # "done"

\* The four levels have returned an empty sequence for the inside of ( ),
\* each without consuming a token.
C26_Witness ==
    /\ parser.input = <<Pu("("), Pu(")")>>
    /\ pc = "done"
    /\ {parser.empties[i].routine : i \in DOMAIN parser.empties}
          = {"parseUnary", "parseMultiplicative", "parseAdditive",
             "parseComparison"}
    /\ EmptyAfterConsuming = {}

(***************************************************************************)
(* C23.  Every node a substitution of a let-bound identifier returns, and  *)
(* every node nested in it at any depth, has no loc field; the nodes made  *)
(* directly from a token of the expression being parsed keep the loc of    *)
(* that token.                                                             *)
(***************************************************************************)
\* The nodes of the last expression that this parse made from a token and
\* that no cloneNodes call copied: symbol nodes, numbers and text nodes.
MadeFromToken ==
    {n \in NodesIn(lastExpression) :
        /\ "id" \in DOMAIN n
        /\ Len(n.id) = 1
        /\ \/ n.type = "text"
           \/ "text" \in DOMAIN n /\ n.mode = "math"}

\* The texts a symbol node made from a token of this text can have.
TextsOf(text) ==
    {text, normalizeDelimiter(text)}
        \cup {OPERATOR_SYMBOL_MAP[k] : k \in {text} \cap DOMAIN OPERATOR_SYMBOL_MAP}
        \cup {NAMED_SYMBOLS[k] : k \in {text} \cap DOMAIN NAMED_SYMBOLS}
        \cup {Explode(text)[i] : i \in 1..Len(text)}

C23_SubstitutedNodesHaveNoLoc ==
    /\ \A i \in DOMAIN parser.subs :
          \A n \in NodesIn(parser.subs[i].nodes) : "loc" \notin DOMAIN n
    /\ \A n \in MadeFromToken :
          /\ "loc" \in DOMAIN n
          /\ n.loc \in DOMAIN parser.input
             => IF n.type = "text"
                THEN /\ parser.input[n.loc].kind = "string"
                     /\ [i \in DOMAIN n.body |-> n.body[i].text]
                           = Explode(parser.input[n.loc].text)
                ELSE n.text \in TextsOf(parser.input[n.loc].text)

\* The types of the nodes the substitutions so far returned, at any depth.
SubstitutedTypes ==
    {n.type : n \in UNION {NodesIn(parser.subs[i].nodes) :
                             i \in DOMAIN parser.subs}}

\* let t = sqrt(x ^ 2); t ^ 3 has been parsed: the substituted handler node
\* has a supsub and its children inside, and the 3 is made from its token.
C23_Witness ==
    /\ pc = "done"
    /\ parser.input =
          LetTokens("t", <<Id("sqrt"), Pu("("), Id("x"), Op("^"), Num("2"),
                           Pu(")")>>)
              \o <<Pu(";"), Id("t"), Op("^"), Num("3")>>
    /\ {"handler", "supsub", "mathord", "textord"} \subseteq SubstitutedTypes
    /\ \E n \in MadeFromToken : n.text = "3" /\ n.loc = 13

(***************************************************************************)
(* C22.  The only consume() made while the lookahead is the lexer's        *)
(* end-of-input token is the one of the expect("EOF") that ends parse():   *)
(* no statement, whether it succeeds or raises an error, has consumed the  *)
(* end of input, and parse() as a whole has consumed it at most once, as   *)
(* the token its last expect("EOF") took.                                  *)
(***************************************************************************)
C22_OnlyParseConsumesEOF ==
    /\ pc \in {"parse", "error"} => parser.eofs = 0
    /\ pc = "done"
       => parser.eofs = IF parser.pos = Len(parser.input) + 2 THEN 1 ELSE 0

\* x ( x has met the end of input inside the call arguments: the error is
\* raised at the end-of-input token, which nothing has consumed.
C22_Witness ==
    /\ parser.input = <<Id("x"), Pu("("), Id("x")>>
    /\ pc = "error"
    /\ parser.err.tok = 4
    /\ parser.eofs = 0

(***************************************************************************)
(* C21.  parse() terminates on every finite input, with a result or an     *)
(* error: the token position only moves forward and never passes the end   *)
(* of the input.  Every iteration of the statement loop that does not      *)
(* leave the loop has consumed a token, and so has every iteration of the  *)
(* comparison, additive and multiplicative loops (juxtaposition included), *)
(* of the postfix loop, of the call-argument loop and of the cases loop;   *)
(* and every nested parse of a group, of call arguments, of a script or of *)
(* an operand begins after a token has been consumed.                      *)
(***************************************************************************)
\* Every loop iteration and every descent recorded so far moved forward.
StepsAdvance ==
    \A i \in DOMAIN parser.steps : parser.steps[i].to > parser.steps[i].from

\* No token is consumed after the end of input but the one expect("EOF")
\* takes.
WithinInput == parser.pos <= Len(parser.input) + 2

\* An iteration of the statement loop after which the loop goes on.
StatementAdvances == pc' = "parse" => parser'.pos > parser.pos

C21_ParseTerminates ==
    /\ [](StepsAdvance /\ WithinInput)
    /\ [][StatementAdvances]_vars

\* The loops and descents recorded so far.
StepKinds == {parser.steps[i].kind : i \in DOMAIN parser.steps}

\* x ^ 1 + y has been parsed: the postfix loop and the additive loop have
\* gone round, each after a descent into its operand.
C21_Witness ==
    /\ pc = "done"
    /\ parser.input = <<Id("x"), Op("^"), Num("1"), Op("+"), Id("y")>>
    /\ StepKinds = {"descent", "parsePostfix", "parseAdditive"}
    /\ Len(parser.steps) = 4

(***************************************************************************)
(* C24.  A block comment ends at the first star-slash that begins at       *)
(* least two characters after the start of its slash-star: comments do     *)
(* not nest and slash-star-slash is no complete comment.  When there is    *)
(* no such end, lex() raises the unterminated-block-comment error, whose   *)
(* token covers the two characters of the opening, and returns no token.   *)
(* A terminated comment produces no token: the call returns what lexing    *)
(* from the character after the end returns.                               *)
(***************************************************************************)
\* The first position at or after c that holds no white space.
RECURSIVE PastBlanks(_)
PastBlanks(c) ==
    IF c < Len(lexer.input) /\ charAt(lexer, c) \in {" ", "\n", "\r", "\t"}
    THEN PastBlanks(c + 1)
    ELSE c

BlockCommentAt(c) == charAt(lexer, c) = "/" /\ charAt(lexer, c + 1) = "*"

\* The positions at which the comment opened at c can end.
Terminators(c) ==
    {e \in (c + 2)..(Len(lexer.input) - 2) :
        charAt(lexer, e) = "*" /\ charAt(lexer, e + 1) = "/"}

\* The position after the comment opened at c.
CommentEnd(c) ==
    2 + CHOOSE e \in Terminators(c) : \A f \in Terminators(c) : e <= f

\* lex() called right after the comment opened at c.
AfterComment(c) ==
    lex([lexer EXCEPT !.pos = CommentEnd(c), !.err = NoLexError])

\* Where the lex() call that raised an error began.
LastCall == IF stream # <<>> THEN stream[Len(stream)].after ELSE 0

UnterminatedBlockComment(c) ==
    [kind |-> "UnterminatedBlockComment", text |-> "/*", start |-> c,
     end |-> c + 2]

C24_BlockCommentEnd ==
    /\ \A i \in DOMAIN stream :
          BlockCommentAt(PastBlanks(stream[i].before))
          => /\ Terminators(PastBlanks(stream[i].before)) # {}
             /\ stream[i].start >= CommentEnd(PastBlanks(stream[i].before))
             /\ AfterComment(PastBlanks(stream[i].before)).l.err = NoLexError
             /\ stream[i] =
                   AfterComment(PastBlanks(stream[i].before)).token
                     @@ [before |-> stream[i].before,
                         after |-> AfterComment(
                                       PastBlanks(stream[i].before)).l.pos]
    /\ (pc = "lexerror" /\ BlockCommentAt(PastBlanks(LastCall)))
       => lexer.err = IF Terminators(PastBlanks(LastCall)) = {}
                      THEN UnterminatedBlockComment(PastBlanks(LastCall))
                      ELSE AfterComment(PastBlanks(LastCall)).l.err

\* For /*/**/ the comment has ended at the first star-slash, the one of
\* what reads as a comment inside it, and the first token is the end of
\* the input.
C24_Witness ==
    /\ lexer.input = "/*/**/"
    /\ stream # <<>>
    /\ stream[1].kind = "EOF"
    /\ stream[1].before = 0
    /\ stream[1].start = 6

====
